---- MODULE Spec2Model ----
(***************************************************************************)
(* A model of docconvert: the Docstring intermediate representation        *)
(* (parser/docstring.py), the line cursor LineIter (parser/base.py), the   *)
(* input-style selection get_parser (parser/__init__.py), the declaration  *)
(* locator ModuleParser (parser/module.py), the argument collection of a   *)
(* declaration, convert_file and convert (core.py), the reST and epytext   *)
(* parsers (parser/base.py, parser/rest.py, parser/epytext.py), the        *)
(* writers (writer/base.py, writer/rest.py, writer/epytext.py,             *)
(* writer/google.py, writer/numpy.py) and dedent_by_minimum                *)
(* (line_utils.py).                                                        *)
(*                                                                         *)
(* Each component has its own specification over the shared variables:     *)
(* SpecDocstring, SpecLineIter, SpecGuess, SpecModule, SpecArguments,      *)
(* SpecConvert, SpecWrite, SpecParse, SpecRender, SpecDedent, SpecIndented *)
(* (the parsers over lines of any indentation), SpecRepeat (write() twice  *)
(* on one writer), SpecPool (convert() and its workers) and SpecSections   *)
(* (the writers of sections).  A specification leaves the variables of the *)
(* other components at their initial values.                               *)
(***************************************************************************)
EXTENDS Integers, Sequences, FiniteSets, TLC

VARIABLES
    doc,              \* the Docstring object: elements and the four field tables
    lastOp,           \* history: the last Docstring call, with its arguments
    ncalls,           \* history: number of Docstring calls made
    firstPos,         \* history: per family, len(elements)+1 at its first call
    argOrder,         \* history: bare argument names in order of first addition
    attrOrder,        \* history: attribute names in order of first addition
    lines,            \* LineIter.lines
    line_num,         \* LineIter.line_num
    ret,              \* result of the last LineIter call
    nextCount,        \* history: successful next() calls on a cursor only stepped by next()
    onlyNext,         \* history: the cursor has only been stepped by next() so far
    capture,          \* get_parser: the lines of the capture
    input_style,      \* get_parser: the requested input style
    doc_parser,       \* get_parser: the returned parser class (or the error raised)
    source,           \* ModuleParser.lines, one record per statement line
    siblings,         \* ModuleParser._siblings: stack of child iterators
    docstrings,       \* ModuleParser.docstrings
    pc,               \* ModuleParser.parse: "init", "walk", "done" or "raised"
    node,             \* a declaration with a docstring: its node type and its ast.arguments
    raw_doc,          \* the RawDocstring built for the declaration (None: not built yet)
    file,             \* convert_file: the lines of the file on disk
    config,           \* convert_file: config (input_style, output_style, output options)
    in_place,         \* convert_file: in_place
    module,           \* the ModuleParser of the file: its docstrings, or the error parse() raises
    src_lines,        \* convert_file: src_lines
    new_lines,        \* convert_file: new_lines
    sorted_docs,      \* convert_file: the sorted docstrings not converted yet
    convert_pc,       \* convert_file: "start", "loop", "done" or "raised"
    raised,           \* convert_file: the exception raised to the caller (None: none)
    writes,           \* history: number of times the file was opened for writing
    elements,         \* BaseWriter.doc.elements
    current_element,  \* BaseWriter._current_element: index of the element being written
    handled,          \* history: the handler called for each element written, in order
    write_pc,         \* BaseWriter.write: "writing", "done" or "raised"
    write_error,      \* BaseWriter.write: the exception raised (None: none)
    parsing,          \* a parser object: class, lines, cursor, indent, keywords, doc, position in parse()
    signature,        \* the keywords and kwarg of the RawDocstring the parser was made for
    pipeline,         \* one capture on its way through parser and writer: lines, config, Docstring, output, and the second pass
    dedenting,        \* line_utils.dedent_by_minimum: the lines given, the lines returned and the lines returned for those
    pool              \* convert(): the source files, the task queue and the workers of the pool, the results and what convert() returns

docVars == <<doc, lastOp, ncalls, firstPos, argOrder, attrOrder>>
iterVars == <<lines, line_num, ret, nextCount, onlyNext>>
guessVars == <<capture, input_style, doc_parser>>
moduleVars == <<source, siblings, docstrings, pc>>
argumentsVars == <<node, raw_doc>>
convertVars == <<file, config, in_place, module, src_lines, new_lines, sorted_docs, convert_pc, raised, writes>>
writeVars == <<elements, current_element, handled, write_pc, write_error>>
parseVars == <<parsing, signature>>
renderVars == <<pipeline>>
dedentVars == <<dedenting>>
poolVars == <<pool>>
vars == <<docVars, iterVars, guessVars, moduleVars, argumentsVars, convertVars, writeVars, parseVars, renderVars, dedentVars, poolVars>>

\* What a step of one component leaves alone: the other components.
othersOfDocstring == <<iterVars, guessVars, moduleVars, argumentsVars, convertVars, writeVars, parseVars, renderVars, dedentVars, poolVars>>
othersOfLineIter == <<docVars, guessVars, moduleVars, argumentsVars, convertVars, writeVars, parseVars, renderVars, dedentVars, poolVars>>
othersOfGuess == <<docVars, iterVars, moduleVars, argumentsVars, convertVars, writeVars, parseVars, renderVars, dedentVars, poolVars>>
othersOfModule == <<docVars, iterVars, guessVars, argumentsVars, convertVars, writeVars, parseVars, renderVars, dedentVars, poolVars>>
othersOfArguments == <<docVars, iterVars, guessVars, moduleVars, convertVars, writeVars, parseVars, renderVars, dedentVars, poolVars>>
othersOfConvert == <<docVars, iterVars, guessVars, moduleVars, argumentsVars, writeVars, parseVars, renderVars, dedentVars, poolVars>>
othersOfWrite == <<docVars, iterVars, guessVars, moduleVars, argumentsVars, convertVars, parseVars, renderVars, dedentVars, poolVars>>
othersOfParse == <<docVars, iterVars, guessVars, moduleVars, argumentsVars, convertVars, writeVars, renderVars, dedentVars, poolVars>>
othersOfRender == <<docVars, iterVars, guessVars, moduleVars, argumentsVars, convertVars, writeVars, parseVars, dedentVars, poolVars>>
othersOfDedent == <<docVars, iterVars, guessVars, moduleVars, argumentsVars, convertVars, writeVars, parseVars, renderVars, poolVars>>
othersOfPool == <<docVars, iterVars, guessVars, moduleVars, argumentsVars, convertVars, writeVars, parseVars, renderVars, dedentVars>>

(***************************************************************************)
(* Python values.  An argument or attribute that may be None is a set:     *)
(* None is the empty set, a value v is {v}.  A str that the code inspects  *)
(* character by character (an argument name) is a sequence of characters.  *)
(***************************************************************************)
None == {}
Some(v) == {v}
Val(x) == CHOOSE v \in x : TRUE

\* Python's `x or d` for a str or list argument: None and the empty value
\* are both falsy.
OrElse(x, empty, d) == IF x = None \/ Val(x) = empty THEN d ELSE Val(x)

RECURSIVE Lstrip(_, _)
\* str.lstrip(chars) for a single character.
Lstrip(s, ch) ==
    IF s # <<>> /\ Head(s) = ch THEN Lstrip(Tail(s), ch) ELSE s

\* Position of the Field called name in an ordered table, 0 when absent.
IndexOf(table, name) ==
    IF \E i \in 1..Len(table) : table[i].name = name
    THEN CHOOSE i \in 1..Len(table) : table[i].name = name
    ELSE 0

Names(table) == [i \in 1..Len(table) |-> table[i].name]

(***************************************************************************)
(* parser/docstring.py: Field                                              *)
(***************************************************************************)
\* Field.__init__(name, kind=None, desc=None, optional=False)
Field(name, kind, desc, optional) ==
    [name |-> name,
     kind |-> OrElse(kind, "", ""),
     desc |-> OrElse(desc, <<>>, <<>>),
     optional |-> optional]

\* One keyword of Field.update: a None value is skipped.
UpdateAttr(old, value) == IF value # None THEN Val(value) ELSE old

\* A Field.update that overwrites blindly: a None kind resets the kind.
FieldUpdateBlind(f, kind, desc, optional) ==
    [name |-> f.name,
     kind |-> IF kind = None THEN "" ELSE Val(kind),
     desc |-> UpdateAttr(f.desc, desc),
     optional |-> UpdateAttr(f.optional, optional)]

\* Field.update(kind=..., desc=..., optional=...); a keyword the caller does
\* not pass at all is given here as None, which update skips as well.
FieldUpdate(f, kind, desc, optional) ==
    [name |-> f.name,
     kind |-> UpdateAttr(f.kind, kind),
     desc |-> UpdateAttr(f.desc, desc),
     optional |-> UpdateAttr(f.optional, optional)]

(***************************************************************************)
(* parser/docstring.py: Docstring                                          *)
(***************************************************************************)
\* Docstring.__init__
NewDocstring ==
    [elements |-> <<>>,
     arg_fields |-> <<>>,
     attribute_fields |-> <<>>,
     raise_fields |-> <<>>,
     return_field |-> None]

\* Docstring.add_element(element)
add_element(d, element) ==
    [d EXCEPT !.elements = Append(@, element)]

\* An add_arg that keys the table by the name as written, stars included.
add_arg_unstripped(d, arg, kind, desc, optional) ==
    LET d1 == IF d.arg_fields = <<>>
              THEN [d EXCEPT !.elements = Append(@, <<"args">>)]
              ELSE d
        i == IndexOf(d.arg_fields, arg)
    IN  IF i # 0
        THEN [d1 EXCEPT !.arg_fields[i] =
                  FieldUpdate(@, kind, desc, Some(optional))]
        ELSE [d1 EXCEPT !.arg_fields =
                  Append(@, Field(arg, kind, desc, optional))]

\* Docstring.add_arg(arg, kind=None, desc=None, optional=False)
add_arg(d, arg, kind, desc, optional) ==
    LET name == Lstrip(arg, "*")
        d1 == IF d.arg_fields = <<>>
              THEN [d EXCEPT !.elements = Append(@, <<"args">>)]
              ELSE d
        i == IndexOf(d.arg_fields, name)
    IN  IF i # 0
        THEN [d1 EXCEPT !.arg_fields[i] =
                  FieldUpdate(@, kind, desc, Some(optional))]
        ELSE [d1 EXCEPT !.arg_fields =
                  Append(@, Field(name, kind, desc, optional))]

\* Docstring.add_attribute(var, kind=None, desc=None)
add_attribute(d, var, kind, desc) ==
    LET d1 == IF d.attribute_fields = <<>>
              THEN [d EXCEPT !.elements = Append(@, <<"attributes">>)]
              ELSE d
        i == IndexOf(d.attribute_fields, var)
    IN  IF i # 0
        THEN [d1 EXCEPT !.attribute_fields[i] = FieldUpdate(@, kind, desc, None)]
        ELSE [d1 EXCEPT !.attribute_fields =
                  Append(@, Field(var, kind, desc, FALSE))]

\* Docstring.add_return(kind=None, desc=None); a Field object is always truthy.
add_return(d, kind, desc) ==
    IF d.return_field = None
    THEN [d EXCEPT !.elements = Append(@, <<"return">>),
                   !.return_field = Some(Field(<<>>, kind, desc, FALSE))]
    ELSE [d EXCEPT !.return_field =
              Some(FieldUpdate(Val(@), kind, desc, None))]

\* An add_raises that marks the section at every call.
add_raises_marking_each(d, kind, desc) ==
    [d EXCEPT !.elements = Append(@, <<"raises">>),
              !.raise_fields = Append(@, Field(<<>>, kind, desc, FALSE))]

\* Docstring.add_raises(kind, desc=None)
add_raises(d, kind, desc) ==
    LET d1 == IF d.raise_fields = <<>>
              THEN [d EXCEPT !.elements = Append(@, <<"raises">>)]
              ELSE d
    IN  [d1 EXCEPT !.raise_fields = Append(@, Field(<<>>, kind, desc, FALSE))]

\* Docstring.add_arg_type(name, kind)
add_arg_type(d, arg, kind) ==
    LET name == Lstrip(arg, "*")
        i == IndexOf(d.arg_fields, name)
    IN  IF i # 0
        THEN [d EXCEPT !.arg_fields[i] = FieldUpdate(@, kind, None, None)]
        ELSE add_arg(d, name, kind, None, FALSE)

\* Docstring.add_attribute_type(name, kind)
add_attribute_type(d, name, kind) ==
    LET i == IndexOf(d.attribute_fields, name)
    IN  IF i # 0
        THEN [d EXCEPT !.attribute_fields[i] = FieldUpdate(@, kind, None, None)]
        ELSE add_attribute(d, name, kind, None)

\* Docstring.add_return_type(kind)
add_return_type(d, kind) ==
    IF d.return_field # None
    THEN [d EXCEPT !.return_field = Some(FieldUpdate(Val(@), kind, None, None))]
    ELSE add_return(d, kind, None)

(***************************************************************************)
(* Docstring: the calls a parser makes, over small argument sets.          *)
(***************************************************************************)
MaxCalls == 3

ArgNames == {<<"a">>, <<"*", "a">>, <<"b">>}
AttrNames == {<<"x">>, <<"y">>}
KindArgs == {None, Some("int")}
TypeArgs == {Some("str")}
DescArgs == {None, Some(<<"d">>)}
\* optional: not passed (None), or passed as True or False
OptArgs == {None, Some(TRUE), Some(FALSE)}
ErrorKinds == {Some("Err")}
Elements == {<<"raw", <<"text">>>>}

Markers == {"args", "attributes", "raises", "return"}

\* The value a parameter takes when the caller does not pass it.
Default(x, d) == IF x = None THEN d ELSE Val(x)

Call(op, name, kind, desc, optional) ==
    [op |-> op, name |-> name, kind |-> kind, desc |-> desc, optional |-> optional]

NoCall == Call("none", <<>>, None, None, None)

\* History kept beside a call: which family it touched first and where.
Touch(family) ==
    firstPos' = IF firstPos[family] = 0
                THEN [firstPos EXCEPT ![family] = Len(doc.elements) + 1]
                ELSE firstPos

FirstSeen(order, name) ==
    IF \E i \in 1..Len(order) : order[i] = name THEN order ELSE Append(order, name)

\* A component nobody uses stays as its constructor left it.
IdleDocstring ==
    /\ doc = NewDocstring
    /\ lastOp = NoCall
    /\ ncalls = 0
    /\ firstPos = [m \in Markers |-> 0]
    /\ argOrder = <<>>
    /\ attrOrder = <<>>

IdleLineIter ==
    /\ lines = <<>>
    /\ line_num = 0
    /\ ret = [kind |-> "none", val |-> <<>>]
    /\ nextCount = 0
    /\ onlyNext = TRUE

IdleGuess ==
    /\ capture = <<>>
    /\ input_style = None
    /\ doc_parser = "none"

IdleModule ==
    /\ source = <<>>
    /\ siblings = <<>>
    /\ docstrings = <<>>
    /\ pc = "init"

IdleArguments ==
    /\ node = [type |-> "none"]
    /\ raw_doc = None

IdleConvert ==
    /\ file = <<>>
    /\ config = [input_style |-> None]
    /\ in_place = FALSE
    /\ module = [docstrings |-> <<>>, error |-> None]
    /\ src_lines = <<>>
    /\ new_lines = <<>>
    /\ sorted_docs = <<>>
    /\ convert_pc = "start"
    /\ raised = None
    /\ writes = 0

IdleWrite ==
    /\ elements = <<>>
    /\ current_element = 0
    /\ handled = <<>>
    /\ write_pc = "writing"
    /\ write_error = None

IdleParse ==
    /\ parsing = [cls |-> "none"]
    /\ signature = [keywords |-> <<>>]

IdleRender ==
    /\ pipeline = [pc |-> "none"]

IdleDedent ==
    /\ dedenting = [pc |-> "none"]

IdlePool ==
    /\ pool = [pc |-> "none"]

InitOthersOfDocstring ==
    /\ IdleLineIter
    /\ IdleGuess
    /\ IdleModule
    /\ IdleArguments
    /\ IdleConvert
    /\ IdleWrite
    /\ IdleParse
    /\ IdleRender
    /\ IdleDedent
    /\ IdlePool

InitOthersOfLineIter ==
    /\ IdleDocstring
    /\ IdleGuess
    /\ IdleModule
    /\ IdleArguments
    /\ IdleConvert
    /\ IdleWrite
    /\ IdleParse
    /\ IdleRender
    /\ IdleDedent
    /\ IdlePool

InitOthersOfGuess ==
    /\ IdleDocstring
    /\ IdleLineIter
    /\ IdleModule
    /\ IdleArguments
    /\ IdleConvert
    /\ IdleWrite
    /\ IdleParse
    /\ IdleRender
    /\ IdleDedent
    /\ IdlePool

InitOthersOfModule ==
    /\ IdleDocstring
    /\ IdleLineIter
    /\ IdleGuess
    /\ IdleArguments
    /\ IdleConvert
    /\ IdleWrite
    /\ IdleParse
    /\ IdleRender
    /\ IdleDedent
    /\ IdlePool

InitOthersOfArguments ==
    /\ IdleDocstring
    /\ IdleLineIter
    /\ IdleGuess
    /\ IdleModule
    /\ IdleConvert
    /\ IdleWrite
    /\ IdleParse
    /\ IdleRender
    /\ IdleDedent
    /\ IdlePool

InitOthersOfConvert ==
    /\ IdleDocstring
    /\ IdleLineIter
    /\ IdleGuess
    /\ IdleModule
    /\ IdleArguments
    /\ IdleWrite
    /\ IdleParse
    /\ IdleRender
    /\ IdleDedent
    /\ IdlePool

InitOthersOfWrite ==
    /\ IdleDocstring
    /\ IdleLineIter
    /\ IdleGuess
    /\ IdleModule
    /\ IdleArguments
    /\ IdleConvert
    /\ IdleParse
    /\ IdleRender
    /\ IdleDedent
    /\ IdlePool

InitOthersOfParse ==
    /\ IdleDocstring
    /\ IdleLineIter
    /\ IdleGuess
    /\ IdleModule
    /\ IdleArguments
    /\ IdleConvert
    /\ IdleWrite
    /\ IdleRender
    /\ IdleDedent
    /\ IdlePool

InitOthersOfRender ==
    /\ IdleDocstring
    /\ IdleLineIter
    /\ IdleGuess
    /\ IdleModule
    /\ IdleArguments
    /\ IdleConvert
    /\ IdleWrite
    /\ IdleParse
    /\ IdleDedent
    /\ IdlePool

InitOthersOfDedent ==
    /\ IdleDocstring
    /\ IdleLineIter
    /\ IdleGuess
    /\ IdleModule
    /\ IdleArguments
    /\ IdleConvert
    /\ IdleWrite
    /\ IdleParse
    /\ IdleRender
    /\ IdlePool

InitOthersOfPool ==
    /\ IdleDocstring
    /\ IdleLineIter
    /\ IdleGuess
    /\ IdleModule
    /\ IdleArguments
    /\ IdleConvert
    /\ IdleWrite
    /\ IdleParse
    /\ IdleRender
    /\ IdleDedent

InitDocstring ==
    /\ doc = NewDocstring
    /\ lastOp = NoCall
    /\ ncalls = 0
    /\ firstPos = [m \in Markers |-> 0]
    /\ argOrder = <<>>
    /\ attrOrder = <<>>
    /\ InitOthersOfDocstring

AddElement ==
    \E e \in Elements :
        /\ ncalls < MaxCalls
        /\ doc' = add_element(doc, e)
        /\ lastOp' = Call("add_element", <<>>, None, None, None)
        /\ ncalls' = ncalls + 1
        /\ UNCHANGED <<firstPos, argOrder, attrOrder>>
        /\ UNCHANGED othersOfDocstring

AddArg ==
    \E arg \in ArgNames, kind \in KindArgs, desc \in DescArgs, opt \in OptArgs :
        /\ ncalls < MaxCalls
        /\ doc' = add_arg(doc, arg, kind, desc, Default(opt, FALSE))
        /\ lastOp' = Call("add_arg", arg, kind, desc, opt)
        /\ ncalls' = ncalls + 1
        /\ Touch("args")
        /\ argOrder' = FirstSeen(argOrder, Lstrip(arg, "*"))
        /\ UNCHANGED attrOrder
        /\ UNCHANGED othersOfDocstring

AddAttribute ==
    \E var \in AttrNames, kind \in KindArgs, desc \in DescArgs :
        /\ ncalls < MaxCalls
        /\ doc' = add_attribute(doc, var, kind, desc)
        /\ lastOp' = Call("add_attribute", var, kind, desc, None)
        /\ ncalls' = ncalls + 1
        /\ Touch("attributes")
        /\ attrOrder' = FirstSeen(attrOrder, var)
        /\ UNCHANGED argOrder
        /\ UNCHANGED othersOfDocstring

AddReturn ==
    \E kind \in KindArgs, desc \in DescArgs :
        /\ ncalls < MaxCalls
        /\ doc' = add_return(doc, kind, desc)
        /\ lastOp' = Call("add_return", <<>>, kind, desc, None)
        /\ ncalls' = ncalls + 1
        /\ Touch("return")
        /\ UNCHANGED <<argOrder, attrOrder>>
        /\ UNCHANGED othersOfDocstring

AddRaises ==
    \E kind \in ErrorKinds, desc \in DescArgs :
        /\ ncalls < MaxCalls
        /\ doc' = add_raises(doc, kind, desc)
        /\ lastOp' = Call("add_raises", <<>>, kind, desc, None)
        /\ ncalls' = ncalls + 1
        /\ Touch("raises")
        /\ UNCHANGED <<argOrder, attrOrder>>
        /\ UNCHANGED othersOfDocstring

AddArgType ==
    \E arg \in ArgNames, kind \in TypeArgs :
        /\ ncalls < MaxCalls
        /\ doc' = add_arg_type(doc, arg, kind)
        /\ lastOp' = Call("add_arg_type", arg, kind, None, None)
        /\ ncalls' = ncalls + 1
        /\ Touch("args")
        /\ argOrder' = FirstSeen(argOrder, Lstrip(arg, "*"))
        /\ UNCHANGED attrOrder
        /\ UNCHANGED othersOfDocstring

AddAttributeType ==
    \E name \in AttrNames, kind \in TypeArgs :
        /\ ncalls < MaxCalls
        /\ doc' = add_attribute_type(doc, name, kind)
        /\ lastOp' = Call("add_attribute_type", name, kind, None, None)
        /\ ncalls' = ncalls + 1
        /\ Touch("attributes")
        /\ attrOrder' = FirstSeen(attrOrder, name)
        /\ UNCHANGED argOrder
        /\ UNCHANGED othersOfDocstring

AddReturnType ==
    \E kind \in TypeArgs :
        /\ ncalls < MaxCalls
        /\ doc' = add_return_type(doc, kind)
        /\ lastOp' = Call("add_return_type", <<>>, kind, None, None)
        /\ ncalls' = ncalls + 1
        /\ Touch("return")
        /\ UNCHANGED <<argOrder, attrOrder>>
        /\ UNCHANGED othersOfDocstring

NextDocstring ==
    \/ AddElement
    \/ AddArg
    \/ AddAttribute
    \/ AddReturn
    \/ AddRaises
    \/ AddArgType
    \/ AddAttributeType
    \/ AddReturnType

SpecDocstring == InitDocstring /\ [][NextDocstring]_vars

(***************************************************************************)
(* Properties of the Docstring representation (SpecDocstring).             *)
(***************************************************************************)
Count(seq, e) == Cardinality({i \in 1..Len(seq) : seq[i] = e})

NoDuplicates(seq) ==
    \A i, j \in 1..Len(seq) : i # j => seq[i] # seq[j]

FieldOf(table, name) == table[IndexOf(table, name)]

\* C1: every section marker ('args',), ('attributes',), ('raises',),
\* ('return',) is in elements exactly once when a call of its family has been
\* made and not at all otherwise, and it sits where elements ended when the
\* first call of that family was made.
C1_MarkerOnceAtFirstCall ==
    \A m \in Markers :
        IF firstPos[m] = 0
        THEN Count(doc.elements, <<m>>) = 0
        ELSE /\ Count(doc.elements, <<m>>) = 1
             /\ firstPos[m] <= Len(doc.elements)
             /\ doc.elements[firstPos[m]] = <<m>>

\* C1 witness: a raw element came first, then two add_raises calls: the
\* marker is second in elements and the table holds two fields.
C1_Witness ==
    /\ firstPos["raises"] = 2
    /\ Len(doc.raise_fields) = 2
    /\ lastOp.op = "add_raises"

\* C2: from any Docstring that leaves room for two more calls, description
\* first then type, or type first then description, leave the same Field for
\* the name; for arguments, attributes and the return field.
C2_MergeOrderIndependent ==
    ncalls + 2 <= MaxCalls =>
    /\ \A arg \in ArgNames, T \in KindArgs \cup TypeArgs, D \in DescArgs, o \in BOOLEAN :
           LET n == Lstrip(arg, "*")
               descFirst == add_arg_type(add_arg(doc, arg, None, D, o), arg, T)
               typeFirst == add_arg(add_arg_type(doc, arg, T), arg, None, D, o)
           IN  FieldOf(descFirst.arg_fields, n) = FieldOf(typeFirst.arg_fields, n)
    /\ \A var \in AttrNames, T \in KindArgs \cup TypeArgs, D \in DescArgs :
           LET descFirst == add_attribute_type(add_attribute(doc, var, None, D), var, T)
               typeFirst == add_attribute(add_attribute_type(doc, var, T), var, None, D)
           IN  FieldOf(descFirst.attribute_fields, var)
                   = FieldOf(typeFirst.attribute_fields, var)
    /\ \A T \in KindArgs \cup TypeArgs, D \in DescArgs :
           LET descFirst == add_return_type(add_return(doc, None, D), T)
               typeFirst == add_return(add_return_type(doc, T), None, D)
           IN  descFirst.return_field = typeFirst.return_field

\* C2 witness: add_arg_type has just given a type to an argument that an
\* earlier add_arg described and marked optional.
C2_Witness ==
    /\ lastOp.op = "add_arg_type"
    /\ IndexOf(doc.arg_fields, Lstrip(lastOp.name, "*")) # 0
    /\ LET f == FieldOf(doc.arg_fields, Lstrip(lastOp.name, "*"))
       IN  f.kind = "str" /\ f.desc = <<"d">> /\ f.optional = TRUE

\* The attributes a call did not pass keep the existing Field's values.
OmittedKept(call, old, new) ==
    /\ call.kind = None => new.kind = old.kind
    /\ call.desc = None => new.desc = old.desc
    /\ call.optional = None => new.optional = old.optional

\* C3: when a Field exists for the name, an add_arg / add_attribute /
\* add_return call leaves every attribute it does not pass (kind, desc,
\* optional) as it was.
C3_OmittedAttributesKept ==
    [][/\ lastOp'.op = "add_arg"
          /\ IndexOf(doc.arg_fields, Lstrip(lastOp'.name, "*")) # 0
          => LET i == IndexOf(doc.arg_fields, Lstrip(lastOp'.name, "*"))
             IN  OmittedKept(lastOp', doc.arg_fields[i], doc'.arg_fields[i])
       /\ lastOp'.op = "add_attribute"
          /\ IndexOf(doc.attribute_fields, lastOp'.name) # 0
          => LET i == IndexOf(doc.attribute_fields, lastOp'.name)
             IN  OmittedKept(lastOp', doc.attribute_fields[i],
                             doc'.attribute_fields[i])
       /\ lastOp'.op = "add_return" /\ doc.return_field # None
          => OmittedKept(lastOp', Val(doc.return_field), Val(doc'.return_field))
      ]_vars

\* C4: arg_fields and attribute_fields hold one Field per distinct name
\* (argument names without their leading '*'), in the order in which the
\* names were first added; so a call for a name already present changes
\* neither the size nor the order of its table.
C4_TablesKeepFirstAddedOrder ==
    /\ Names(doc.arg_fields) = argOrder
    /\ NoDuplicates(Names(doc.arg_fields))
    /\ Names(doc.attribute_fields) = attrOrder
    /\ NoDuplicates(Names(doc.attribute_fields))

\* C4 witness: a and b were added, then *a was added again: the table still
\* holds a, b in that order.
C4_Witness ==
    /\ ncalls = 3
    /\ lastOp.op = "add_arg"
    /\ lastOp.name = <<"*", "a">>
    /\ Names(doc.arg_fields) = << <<"a">>, <<"b">> >>

(***************************************************************************)
(* parser/base.py: LineIter                                                *)
(*                                                                         *)
(* A call's outcome is a record: kind "str" (val holds the one line),      *)
(* "list" (val is the list), "bool", or the exception raised.              *)
(***************************************************************************)
MaxLen == 3
MaxNum == 3

LineTexts == {"l1", "l2"}

Min(a, b) == IF a < b THEN a ELSE b
Max(a, b) == IF a > b THEN a ELSE b

\* list[i] for a Python index i (0-based, negative from the end).
PyIndex(list, i) ==
    IF 0 <= i /\ i < Len(list) THEN [kind |-> "str", val |-> <<list[i + 1]>>]
    ELSE IF i < 0 /\ -Len(list) <= i
         THEN [kind |-> "str", val |-> <<list[Len(list) + i + 1]>>]
         ELSE [kind |-> "IndexError", val |-> <<>>]

\* list[a:b] for Python slice bounds a and b.
PySlice(list, a, b) ==
    LET lo == IF a < 0 THEN Max(Len(list) + a, 0) ELSE Min(a, Len(list))
        hi == IF b < 0 THEN Max(Len(list) + b, 0) ELSE Min(b, Len(list))
    IN  [kind |-> "list", val |-> SubSeq(list, lo + 1, hi)]

\* LineIter.has_next()
has_next(ls, num) == num < Len(ls)

\* LineIter.next(num_of_lines): the outcome and the new line_num.
next(ls, num, n) ==
    IF ~has_next(ls, num)
    THEN [kind |-> "StopIteration", val |-> <<>>, line_num |-> num]
    ELSE IF n > 0
         THEN LET new == Min(num + n, Len(ls))
                  out == IF n = 1 THEN PyIndex(ls, num) ELSE PySlice(ls, num, new)
              IN  [kind |-> out.kind, val |-> out.val, line_num |-> new]
         ELSE [kind |-> "list", val |-> <<>>, line_num |-> num]

\* A peek that starts at the cursor without clamping it to the last line.
peek_unclamped(ls, num, n, start) ==
    IF n > 0
    THEN LET start_index == IF start = None \/ Val(start) = 0 THEN num ELSE Val(start)
         IN  IF n = 1
             THEN PyIndex(ls, start_index)
             ELSE PySlice(ls, start_index, Min(start_index + n, Len(ls)))
    ELSE [kind |-> "list", val |-> <<>>]

\* LineIter.peek(num_of_lines, start); `start or self.line_num` takes the
\* cursor for start=None and for start=0.
peek(ls, num, n, start) ==
    IF n > 0
    THEN LET from == IF start = None \/ Val(start) = 0 THEN num ELSE Val(start)
             start_index == Min(from, Len(ls) - 1)
         IN  IF n = 1
             THEN PyIndex(ls, start_index)
             ELSE PySlice(ls, start_index, Min(start_index + n, Len(ls)))
    ELSE [kind |-> "list", val |-> <<>>]

Outcome(op, n, start, kind, val) ==
    [op |-> op, n |-> n, start |-> start, kind |-> kind, val |-> val]

\* LineIter.__init__(lines)
InitLineIter ==
    /\ lines \in UNION {[1..k -> LineTexts] : k \in 0..MaxLen}
    /\ line_num = 0
    /\ ret = Outcome("none", 0, None, "none", <<>>)
    /\ nextCount = 0
    /\ onlyNext = TRUE
    /\ InitOthersOfLineIter

HasNext ==
    /\ ret' = Outcome("has_next", 0, None, "bool",
                      IF has_next(lines, line_num) THEN <<"True">> ELSE <<"False">>)
    /\ UNCHANGED <<lines, line_num, nextCount, onlyNext>>
    /\ UNCHANGED othersOfLineIter

NextLines ==
    \E n \in 0..MaxNum :
        LET r == next(lines, line_num, n)
        IN  /\ ret' = Outcome("next", n, None, r.kind, r.val)
            /\ line_num' = r.line_num
            /\ onlyNext' = (onlyNext /\ n = 1)
            /\ nextCount' = IF n = 1 /\ r.kind = "str" THEN nextCount + 1 ELSE nextCount
            /\ UNCHANGED lines
            /\ UNCHANGED othersOfLineIter

Peek ==
    \E n \in 0..MaxNum, start \in {None} \cup {Some(i) : i \in 0..MaxLen + 1} :
        LET r == peek(lines, line_num, n, start)
        IN  /\ ret' = Outcome("peek", n, start, r.kind, r.val)
            /\ UNCHANGED <<lines, line_num, nextCount, onlyNext>>
            /\ UNCHANGED othersOfLineIter

NextLineIter ==
    \/ HasNext
    \/ NextLines
    \/ Peek

SpecLineIter == InitLineIter /\ [][NextLineIter]_vars

(***************************************************************************)
(* Properties of the line cursor (SpecLineIter).                           *)
(***************************************************************************)
LastLine == lines[Len(lines)]

\* peek(n), n >= 1, on a non-empty list: no exception, the cursor stays, and
\* at or past the end the result is the final line, alone in a list if n > 1.
PeekLaw ==
    ret'.op = "peek" /\ ret'.n >= 1 /\ lines # <<>> =>
        /\ ret'.kind \in {"str", "list"}
        /\ line_num' = line_num
        /\ LET from == IF ret'.start = None \/ Val(ret'.start) = 0
                        THEN line_num ELSE Val(ret'.start)
           IN  from >= Len(lines) =>
                   /\ ret'.kind = IF ret'.n = 1 THEN "str" ELSE "list"
                   /\ ret'.val = <<LastLine>>

\* next() returns the line under the cursor and steps by one while lines
\* remain, and raises StopIteration, without moving, once none remain.
NextLaw ==
    ret'.op = "next" /\ ret'.n = 1 =>
        IF line_num < Len(lines)
        THEN /\ ret'.kind = "str"
             /\ ret'.val = <<lines[line_num + 1]>>
             /\ line_num' = line_num + 1
        ELSE /\ ret'.kind = "StopIteration"
             /\ line_num' = line_num

\* next(n) with some but fewer than n lines left returns them as a list and
\* exhausts the cursor.
NextShortLaw ==
    /\ ret'.op = "next"
    /\ ret'.n > 1
    /\ line_num < Len(lines)
    /\ Len(lines) - line_num < ret'.n
    => /\ ret'.kind = "list"
       /\ ret'.val = SubSeq(lines, line_num + 1, Len(lines))
       /\ line_num' = Len(lines)
       /\ ~has_next(lines', line_num')

\* On a cursor only ever stepped by next(), the successes number the lines
\* passed, and StopIteration comes exactly when all len(lines) were returned.
NextCountLaw ==
    onlyNext =>
        /\ nextCount = line_num
        /\ nextCount <= Len(lines)
        /\ (ret.op = "next" /\ ret.kind = "StopIteration") => nextCount = Len(lines)
        /\ (ret.op = "next" /\ ret.kind = "str") => nextCount >= 1

\* C5: the line-cursor clamp law: peek(n) on a non-empty list never raises
\* and never moves the cursor, and at or past the end gives the final line
\* (in a list when n > 1); next() succeeds exactly len(lines) times from a
\* fresh cursor and then raises StopIteration; next(n) with fewer than n
\* lines left returns what is left as a list and exhausts the cursor.
C5_LineCursorClampLaw ==
    /\ []NextCountLaw
    /\ [][PeekLaw /\ NextLaw /\ NextShortLaw]_vars

\* C5 witness: every line was taken by next(), the cursor is exhausted, and
\* peek(2) has just returned the final line alone in a list.
C5_Witness ==
    /\ Len(lines) = MaxLen
    /\ onlyNext
    /\ nextCount = Len(lines)
    /\ ret.op = "peek" /\ ret.n = 2 /\ ret.start = None
    /\ ret.kind = "list" /\ ret.val = <<LastLine>>

(***************************************************************************)
(* parser/rest.py, parser/epytext.py: the match predicates.                *)
(*                                                                         *)
(* A docstring line is a record: its indentation, its first character      *)
(* (lead), the words that follow the lead up to the first ':' or the end   *)
(* of the line, and whether a ':' ends those words.  RestParser._field_re   *)
(* and EpytextParser._field_re (a lead, then up to three, resp. two,       *)
(* groups of characters other than blanks and ':', then ':') match such a  *)
(* line exactly when it is unindented, has the lead,                       *)
(* has one to three (two) words and the ':' after them.                    *)
(***************************************************************************)
Line(indent, lead, words, colon) ==
    [indent |-> indent, lead |-> lead, words |-> words, colon |-> colon]

\* str.lower() on the words of the model.
Lower(w) == IF w = "Param" THEN "param" ELSE w

\* line.strip().lower()
StripLower(line) ==
    [line EXCEPT !.indent = 0,
                 !.words = [i \in 1..Len(line.words) |-> Lower(line.words[i])]]

\* RestParser._arg_fields ... _single_fields
Rest_arg_fields ==
    {"param", "parameter", "arg", "argument", "key", "keyword", "kwarg", "kwparam"}
Rest_type_fields == {"type", "vartype"}
Rest_raises_fields == {"raise", "raises", "except", "exception"}
Rest_return_fields == {"return", "returns", "rtype", "returntype"}
Rest_var_fields == {"var", "variable", "ivar", "ivariable", "cvar", "cvariable"}
Rest_group_fields ==
    {"parameters", "keywords", "attributes", "exceptions", "raises", "variables",
     "ivariables", "cvariables", "example", "examples"}
Rest_triple_fields == Rest_arg_fields \cup Rest_var_fields
Rest_double_fields ==
    Rest_arg_fields \cup Rest_type_fields \cup Rest_raises_fields \cup Rest_var_fields
Rest_single_fields == Rest_group_fields \cup Rest_return_fields

\* EpytextParser._single_fields; _double_fields is inherited.
Epytext_single_fields == Rest_return_fields

\* BaseParser._directives (its keys)
Directives ==
    {"note", "warning", "warn", "see", "seealso", "reference", "ref", "todo",
     "example", "examples"}

\* RestParser._match_rest / RestParser.match
RestMatch(line) ==
    /\ line.indent = 0 /\ line.lead = ":" /\ line.colon
    /\ Len(line.words) \in 1..3
    /\ LET field == Lower(line.words[1])
       IN  IF Len(line.words) = 3 THEN field \in Rest_triple_fields
           ELSE IF Len(line.words) = 2 THEN field \in Rest_double_fields
           ELSE field \in Rest_single_fields

\* EpytextParser.match
EpytextMatch(line) ==
    /\ line.indent = 0 /\ line.lead = "@" /\ line.colon
    /\ Len(line.words) \in 1..2
    /\ IF Len(line.words) = 2 THEN line.words[1] \in Rest_double_fields
       ELSE line.words[1] \in Epytext_single_fields \/ line.words[1] \in Directives

(***************************************************************************)
(* parser/__init__.py: get_parser                                          *)
(***************************************************************************)
MaxCapture == 3

\* InputStyle: the values of the enumeration
InputStyles == {"guess", "rest", "epytext"}

\* _PARSERS.values(), in registration order
PARSERS == <<"RestParser", "EpytextParser">>

StyleParser(style) == IF style = "rest" THEN "RestParser" ELSE "EpytextParser"

Match(parser, line) ==
    IF parser = "RestParser" THEN RestMatch(line) ELSE EpytextMatch(line)

RECURSIVE TryParsers(_, _, _)
\* The inner loop: the first registered parser that matches the line is
\* assigned to doc_parser, and the loop over the parsers breaks.
TryParsers(line, k, dp) ==
    IF k > Len(PARSERS) THEN dp
    ELSE IF Match(PARSERS[k], line) THEN PARSERS[k]
    ELSE TryParsers(line, k + 1, dp)

RECURSIVE GuessFirstLineOnly(_, _, _)
\* A loop over the lines that stops after the first line, matched or not.
GuessFirstLineOnly(ls, i, dp) ==
    IF i > Min(Len(ls), 1) THEN dp
    ELSE GuessFirstLineOnly(ls, i + 1, TryParsers(StripLower(ls[i]), 1, dp))

RECURSIVE GuessLines(_, _, _)
\* The outer loop `for line in lines`: it runs over every line.
GuessLines(ls, i, dp) ==
    IF i > Len(ls) THEN dp
    ELSE GuessLines(ls, i + 1, TryParsers(StripLower(ls[i]), 1, dp))

\* get_parser(lines, input_style)
get_parser(ls, style) ==
    LET st == IF style = None THEN "guess" ELSE Val(style)
    IN  IF st \notin InputStyles THEN "ValueError"
        ELSE IF st # "guess" THEN StyleParser(st)
        ELSE GuessLines(ls, 1, "BaseParser")

CaptureLines ==
    {Line(0, ":", <<"param", "a">>, TRUE),
     Line(4, ":", <<"Param", "int", "a">>, TRUE),
     Line(0, ":", <<"returns">>, TRUE),
     Line(0, ":", <<"type", "int", "a">>, TRUE),
     Line(0, ":", <<"param", "a">>, FALSE),
     Line(0, "@", <<"param", "a">>, TRUE),
     Line(4, "@", <<"note">>, TRUE),
     Line(0, "@", <<"parameters">>, TRUE),
     Line(0, "t", <<"text">>, FALSE)}

StyleArgs == {None, Some("guess"), Some("rest"), Some("epytext"), Some("google")}

InitGuess ==
    /\ capture \in UNION {[1..k -> CaptureLines] : k \in 0..MaxCapture}
    /\ input_style \in StyleArgs
    /\ doc_parser = "none"
    /\ InitOthersOfGuess

GetParser ==
    /\ doc_parser = "none"
    /\ doc_parser' = get_parser(capture, input_style)
    /\ UNCHANGED <<capture, input_style>>
    /\ UNCHANGED othersOfGuess

NextGuess == GetParser

SpecGuess == InitGuess /\ [][NextGuess]_vars

(***************************************************************************)
(* Properties of the style guess (SpecGuess).                              *)
(***************************************************************************)
Guessing == input_style = None \/ input_style = Some("guess")

\* The grammar accepts the line as get_parser hands it to the predicate.
Accepts(parser, line) == Match(parser, StripLower(line))

Accepted(i) == \E k \in 1..Len(PARSERS) : Accepts(PARSERS[k], capture[i])

\* C6: guessing returns the grammar that accepts the earliest accepted line
\* of the capture, whatever lines follow it.
C6_EarliestAcceptedLineDecides ==
    doc_parser # "none" /\ Guessing =>
        \A i \in 1..Len(capture) :
            Accepted(i) /\ (\A j \in 1..(i - 1) : ~Accepted(j))
                => \E k \in 1..Len(PARSERS) :
                       doc_parser = PARSERS[k] /\ Accepts(PARSERS[k], capture[i])

\* C7: when guessing, if some line is accepted by grammar A and no line by
\* any other registered grammar, A is returned; if no line is accepted by any
\* registered grammar, BaseParser is returned.
C7_GuessIsDetermined ==
    doc_parser # "none" /\ Guessing =>
        /\ \A a \in 1..Len(PARSERS) :
               /\ \E i \in 1..Len(capture) : Accepts(PARSERS[a], capture[i])
               /\ \A b \in 1..Len(PARSERS), i \in 1..Len(capture) :
                      b # a => ~Accepts(PARSERS[b], capture[i])
               => doc_parser = PARSERS[a]
        /\ (\A i \in 1..Len(capture) : ~Accepted(i)) => doc_parser = "BaseParser"

\* C7 witness: the capture opens with a line no grammar accepts, a later
\* line is an indented reST field, no line is an epytext field, and the
\* guess returned RestParser.
C7_Witness ==
    /\ Guessing
    /\ Len(capture) >= 2
    /\ ~Accepted(1)
    /\ capture[2].indent > 0 /\ Accepts("RestParser", capture[2])
    /\ \A i \in 1..Len(capture) : ~Accepts("EpytextParser", capture[i])
    /\ doc_parser = "RestParser"

(***************************************************************************)
(* parser/module.py: ModuleParser                                          *)
(*                                                                         *)
(* The source file is a sequence of statements, one per line, each with    *)
(* its indentation depth and its kind:                                     *)
(*   "assign"  an assignment statement (ast.Assign)                        *)
(*   "str"     a string-literal expression statement                       *)
(*   "other"   another simple statement                                    *)
(*   "def", "class"    a header followed by an indented block              *)
(*   "if"      the header of another compound statement, with its block    *)
(*   "def1", "class1"  a definition with its body `...` on the header line *)
(* Comments, blank lines and decorators are left out; the children of a    *)
(* node that are not statements (arguments, bases, a test) hold no         *)
(* statements and are not listed.                                          *)
(***************************************************************************)
MaxSourceLines == 4
MaxDepth == 2

BlockHeaders == {"def", "class", "if"}
Kinds == {"assign", "str", "other", "def1", "class1"} \cup BlockHeaders

Stmt(depth, kind) == [depth |-> depth, kind |-> kind]

\* What Python's grammar allows after the line prev: a block header is
\* followed by a deeper line, any other line by a line no deeper than it.
Follows(prev, l) ==
    IF prev.kind \in BlockHeaders THEN l.depth = prev.depth + 1
    ELSE l.depth <= prev.depth

RECURSIVE Prefixes(_)
\* The well-indented line sequences of length n.
Prefixes(n) ==
    IF n = 0 THEN {<<>>}
    ELSE LET P == Prefixes(n - 1)
             L == {Stmt(d, k) : d \in 0..MaxDepth, k \in Kinds}
         IN  {Append(x[1], x[2]) :
                 x \in {y \in P \X L :
                           IF y[1] = <<>> THEN y[2].depth = 0
                           ELSE Follows(y[1][Len(y[1])], y[2])}}

\* The files of at most max lines that ast.parse accepts: no block header
\* is left without its block.
Sources(max) ==
    UNION {{p \in Prefixes(n) : p[n].kind \notin BlockHeaders} : n \in 1..max}

RECURSIVE SortedSeq(_)
SortedSeq(S) ==
    IF S = {} THEN <<>>
    ELSE LET m == CHOOSE x \in S : \A y \in S : x <= y
         IN  <<m>> \o SortedSeq(S \ {m})

\* ast.iter_child_nodes(node): the statements of the node's block, in order.
\* Line 0 stands for the ast.Module node.
Children(src, i) ==
    IF i = 0 THEN SortedSeq({j \in 1..Len(src) : src[j].depth = 0})
    ELSE IF src[i].kind \notin BlockHeaders THEN <<>>
    ELSE SortedSeq({j \in (i + 1)..Len(src) :
                       /\ src[j].depth = src[i].depth + 1
                       /\ \A k \in (i + 1)..j : src[k].depth > src[i].depth})

\* An iterator over child nodes, as iter_child_nodes returns it.
Iter(nodes) == [nodes |-> nodes, pos |-> 0]

\* RawDocstring(start, end, ...): 0-based first line, exclusive end.
RawDocstring(start, end) == [start |-> start, end |-> end]

\* _get_string_start_end(node) for the string statement on line j.
get_string_start_end(j) == RawDocstring(j - 1, j)

\* tokenize.generate_tokens restarted at line i: the first token the lexer
\* gives for the line after the header's NEWLINE.  The restarted lexer's
\* indent stack holds column 0 and the header's own column.
TokenAfterHeader(src, i) ==
    IF i = Len(src) THEN "ENDMARKER"
    ELSE LET col == src[i].depth
             nxt == src[i + 1].depth
         IN  IF nxt > col THEN "INDENT"
             ELSE IF nxt = col THEN "NAME"
             ELSE IF nxt = 0 THEN "DEDENT"
             ELSE "IndentationError"

\* ModuleParser._find_docstring: the token at line j is a STRING.
find_docstring(src, j) ==
    IF j <= Len(src) /\ src[j].kind = "str"
    THEN Some(get_string_start_end(j))
    ELSE None

\* ModuleParser._parse_definition(start) with TokenStream.next: the
\* docstring found, or the exception the token generator raised.
parse_definition(src, i) ==
    LET tok == TokenAfterHeader(src, i)
    IN  IF tok = "IndentationError"
        THEN [raised |-> TRUE, docstring |-> None]
        ELSE IF tok = "INDENT"
        THEN [raised |-> FALSE, docstring |-> find_docstring(src, i + 1)]
        ELSE [raised |-> FALSE, docstring |-> None]

\* ModuleParser.__init__(lines)
InitModule ==
    /\ source \in Sources(MaxSourceLines)
    /\ siblings = <<>>
    /\ docstrings = <<>>
    /\ pc = "init"
    /\ InitOthersOfModule

Top == siblings[Len(siblings)]
HasChild == Top.pos < Len(Top.nodes)
Child == Top.nodes[Top.pos + 1]

\* next(iterator) on the innermost iterator
Advanced == [siblings EXCEPT ![Len(siblings)].pos = @ + 1]

\* ModuleParser.parse up to the loop of _visit_module
Parse ==
    /\ pc = "init"
    /\ docstrings' = (IF find_docstring(source, 1) # None
                      THEN <<Val(find_docstring(source, 1))>> ELSE <<>>)
    /\ siblings' = <<Iter(Children(source, 0))>>
    /\ pc' = "walk"
    /\ UNCHANGED source
    /\ UNCHANGED othersOfModule

\* _visit_functiondef on the next child of the loop
VisitFunctionDef ==
    /\ pc = "walk"
    /\ HasChild
    /\ source[Child].kind \in {"def", "def1"}
    /\ LET r == parse_definition(source, Child)
       IN  IF r.raised
           THEN /\ pc' = "raised"
                /\ siblings' = Advanced
                /\ UNCHANGED docstrings
           ELSE /\ pc' = pc
                /\ docstrings' = (IF r.docstring # None
                                  THEN Append(docstrings, Val(r.docstring))
                                  ELSE docstrings)
                /\ siblings' = Append(Advanced, Iter(Children(source, Child)))
    /\ UNCHANGED source
    /\ UNCHANGED othersOfModule

\* _visit_classdef on the next child of the loop
VisitClassDef ==
    /\ pc = "walk"
    /\ HasChild
    /\ source[Child].kind \in {"class", "class1"}
    /\ LET r == parse_definition(source, Child)
       IN  IF r.raised
           THEN /\ pc' = "raised"
                /\ siblings' = Advanced
                /\ UNCHANGED docstrings
           ELSE /\ pc' = pc
                /\ docstrings' = (IF r.docstring # None
                                  THEN Append(docstrings, Val(r.docstring))
                                  ELSE docstrings)
                /\ siblings' = Append(Advanced, Iter(Children(source, Child)))
    /\ UNCHANGED source
    /\ UNCHANGED othersOfModule

\* _visit_assign on the next child: next(siblings, None) takes the following
\* sibling off the iterator the enclosing loop runs on.
VisitAssign ==
    /\ pc = "walk"
    /\ HasChild
    /\ source[Child].kind = "assign"
    /\ LET it == Advanced[Len(siblings)]
           more == it.pos < Len(it.nodes)
           next_sibling == it.nodes[it.pos + 1]
       IN  /\ siblings' = (IF more
                           THEN [Advanced EXCEPT ![Len(siblings)].pos = @ + 1]
                           ELSE Advanced)
           /\ docstrings' = (IF more /\ source[next_sibling].kind = "str"
                             THEN Append(docstrings, get_string_start_end(next_sibling))
                             ELSE docstrings)
    /\ UNCHANGED <<source, pc>>
    /\ UNCHANGED othersOfModule

\* _generic_visit on a node without a visit method: its children are pushed
GenericVisit ==
    /\ pc = "walk"
    /\ HasChild
    /\ source[Child].kind \in {"if", "str", "other"}
    /\ siblings' = Append(Advanced, Iter(Children(source, Child)))
    /\ UNCHANGED <<source, docstrings, pc>>
    /\ UNCHANGED othersOfModule

\* The loop over the children ends: self._siblings.pop(), and the visit
\* returns; parse() returns when the module's loop ends.
EndOfChildren ==
    /\ pc = "walk"
    /\ ~HasChild
    /\ siblings' = SubSeq(siblings, 1, Len(siblings) - 1)
    /\ pc' = IF Len(siblings) = 1 THEN "done" ELSE "walk"
    /\ UNCHANGED <<source, docstrings>>
    /\ UNCHANGED othersOfModule

NextModule ==
    \/ Parse
    \/ VisitFunctionDef
    \/ VisitClassDef
    \/ VisitAssign
    \/ GenericVisit
    \/ EndOfChildren

SpecModule == InitModule /\ [][NextModule]_vars

(***************************************************************************)
(* Properties of the declaration locator (SpecModule).                     *)
(***************************************************************************)
\* The line of the statement whose block holds line j; 0 for the module.
Parent(j) ==
    IF source[j].depth = 0 THEN 0
    ELSE CHOOSE i \in 1..(j - 1) :
             /\ source[i].depth = source[j].depth - 1
             /\ \A k \in (i + 1)..j : source[k].depth > source[i].depth

ParentKind(j) == IF Parent(j) = 0 THEN "module" ELSE source[Parent(j)].kind

\* Line j is a string-literal statement that opens the body of the module,
\* of a function or of a class.
OpensDeclaration(j) ==
    /\ source[j].kind = "str"
    /\ \/ j = 1
       \/ j > 1 /\ source[j - 1].kind \in {"def", "class"}

\* Line j is a string-literal statement that directly follows an assignment
\* statement of the same block.
FollowsAssign(j) ==
    /\ source[j].kind = "str"
    /\ j > 1
    /\ source[j - 1].kind = "assign"
    /\ source[j - 1].depth = source[j].depth

\* The captures the locator is to yield, in source order.
ExpectedDocstrings ==
    LET S == {j \in 1..Len(source) : OpensDeclaration(j) \/ FollowsAssign(j)}
        order == SortedSeq(S)
    IN  [n \in 1..Len(order) |-> get_string_start_end(order[n])]

\* C8: parse yields, in source order, exactly one capture for every module,
\* function and class whose body starts with a string-literal statement and
\* one for every assignment directly followed by a string-literal statement,
\* whatever statement precedes the declaration or the assignment.
C8_OneCapturePerDeclaration ==
    pc = "done" => docstrings = ExpectedDocstrings

\* C9: a capture for a string that follows an assignment is produced only
\* when the assignment is a direct statement of the module body or of a
\* class body.
C9_AttributeCapturesOnlyInModuleOrClass ==
    \A n \in 1..Len(docstrings) :
        LET j == docstrings[n].end
        IN  FollowsAssign(j) => ParentKind(j) \in {"module", "class"}

\* Re-lexing from the first line of the declaration on line i meets a dedent
\* to a column that is not on the restarted lexer's indent stack.
RelexDiagnostic(i) ==
    /\ source[i].kind \in {"def", "class", "def1", "class1"}
    /\ TokenAfterHeader(source, i) = "IndentationError"

\* C10: the indentation diagnostic of a re-lex ends the token stream: parse
\* never raises, and on such a file it still returns the captures of all the
\* declarations.
C10_IndentDiagnosticSwallowed ==
    /\ pc # "raised"
    /\ (pc = "done" /\ \E i \in 1..Len(source) : RelexDiagnostic(i))
           => docstrings = ExpectedDocstrings

(***************************************************************************)
(* parser/module.py: the signature information of a capture.               *)
(*                                                                         *)
(* A declaration is given as ast.parse gives it: its node type and, for a  *)
(* function, its ast.arguments (posonlyargs, args, defaults, vararg,       *)
(* kwonlyargs, kwarg; defaults holds one entry per default-valued          *)
(* parameter of posonlyargs + args, which are the last ones).              *)
(***************************************************************************)
MaxParams == 2

NodeTypes == {"Module", "ClassDef", "Assign", "FunctionDef", "AsyncFunctionDef"}
FunctionTypes == {"FunctionDef", "AsyncFunctionDef"}

\* The parameter names of one kind, in the order they are written.
ParamNames(kind, n) == [i \in 1..n |-> <<kind, i>>]

\* ast.arguments of the signatures Python accepts.
Signatures ==
    UNION {
        { [posonlyargs |-> ParamNames("p", np),
           args |-> ParamNames("a", na),
           defaults |-> [i \in 1..nd |-> "expr"],
           vararg |-> va,
           kwonlyargs |-> ParamNames("k", nk),
           kwarg |-> kw] :
             nd \in 0..(np + na), nk \in 0..1,
             va \in {None, Some(<<"args", 1>>)},
             kw \in {None, Some(<<"kwargs", 1>>)} } :
        np \in 0..MaxParams, na \in 0..MaxParams }

\* _get_arguments(arguments) on Python 3: (args, keywords, vararg, kwarg)
get_arguments(arguments) ==
    LET num_args == Len(arguments.args) - Len(arguments.defaults)
        n == Len(arguments.args)
    IN  [args |-> PySlice(arguments.args, 0, num_args).val,
         keywords |-> PySlice(arguments.args, num_args, n).val
                          \o arguments.kwonlyargs,
         vararg |-> arguments.vararg,
         kwarg |-> arguments.kwarg]

\* default_docstring(start, end, lines): the signature part
default_docstring ==
    [args |-> <<>>, keywords |-> <<>>, vararg |-> None, kwarg |-> None]

InitArguments ==
    /\ node \in [type : FunctionTypes, args : Signatures]
                    \cup [type : NodeTypes \ FunctionTypes, args : {None}]
    /\ raw_doc = None
    /\ InitOthersOfArguments

\* _visit_functiondef and _visit_asyncfunctiondef, for a docstring found
CaptureFunction ==
    /\ raw_doc = None
    /\ node.type \in FunctionTypes
    /\ raw_doc' = Some(get_arguments(node.args))
    /\ UNCHANGED node
    /\ UNCHANGED othersOfArguments

\* _visit_module, _visit_classdef and _visit_assign, for a docstring found
CaptureDefault ==
    /\ raw_doc = None
    /\ node.type \in NodeTypes \ FunctionTypes
    /\ raw_doc' = Some(default_docstring)
    /\ UNCHANGED node
    /\ UNCHANGED othersOfArguments

NextArguments ==
    \/ CaptureFunction
    \/ CaptureDefault

SpecArguments == InitArguments /\ [][NextArguments]_vars

\* The positional parameters of a signature in the order they are written:
\* the positional-only ones, then the ordinary ones.
Positional(arguments) == arguments.posonlyargs \o arguments.args

\* How many of them come before the first default-valued one.
BeforeDefaults(arguments) ==
    Len(Positional(arguments)) - Len(arguments.defaults)

\* C11: for a function or async function the capture's args are the names
\* of the parameters before the first default-valued one, keywords the
\* default-valued names followed by the keyword-only names, vararg and kwarg
\* the variadic names or None; a module, class or attribute capture has
\* empty args and keywords and None vararg and kwarg.
C11_SignatureOfCapture ==
    raw_doc # None =>
        IF node.type \in FunctionTypes
        THEN LET sig == node.args
                 pos == Positional(sig)
                 k == BeforeDefaults(sig)
             IN  /\ Val(raw_doc).args = SubSeq(pos, 1, k)
                 /\ Val(raw_doc).keywords =
                        SubSeq(pos, k + 1, Len(pos)) \o sig.kwonlyargs
                 /\ Val(raw_doc).vararg = sig.vararg
                 /\ Val(raw_doc).kwarg = sig.kwarg
        ELSE Val(raw_doc) = default_docstring

(***************************************************************************)
(* core.py: convert_file                                                   *)
(*                                                                         *)
(* A line of the file is a record: a line of the source (kind "src", with  *)
(* its 0-based line number) or a line written for a capture (kind "new",   *)
(* with the start of the capture and its position in the new docstring).   *)
(* A capture is given by its range, by whether its first line holds an     *)
(* opening string delimiter, and by the number of lines its writer         *)
(* produces.                                                               *)
(***************************************************************************)
MaxFileLines == 4
MaxDocs == 2

SrcLine(k) == [kind |-> "src", a |-> k, b |-> 0]
NewLine(start, i) == [kind |-> "new", a |-> start, b |-> i]

\* The file as read: lines 0 .. n-1.
FileOf(n) == [k \in 1..n |-> SrcLine(k - 1)]

\* What the writer of a capture returns.
NewDoc(rawdoc) == [i \in 1..rawdoc.new_len |-> NewLine(rawdoc.start, i)]

\* The numbers of lines a writer returns for a capture: fewer or more lines
\* than a capture of two lines.
NewLens == {1, 3}

\* The captures a file of n lines can hold: ranges [start, end).
Captures(n) ==
    {c \in [start : 0..(n - 1), end : 1..n, malformed : BOOLEAN,
            new_len : NewLens] : c.start < c.end}

\* module.docstrings: captures in source order, with disjoint ranges.
DocstringLists(n) ==
    {ds \in UNION {[1..k -> Captures(n)] : k \in 0..MaxDocs} :
        \A i \in 1..(Len(ds) - 1) : ds[i].end <= ds[i + 1].start}

\* writer.OutputStyle: the values of the enumeration
OutputStyles == {"google", "numpy", "rest", "epytext"}

\* The style names a caller passes in the configuration.
InputStyleArgs == {"guess", "rest", "google"}
OutputStyleArgs == {"google", "epytext", "markdown"}

\* config.output.convert_epytext_markup: set, or not an attribute of the
\* configuration at all (DEFAULT_CONFIG does not hold it).
MarkupArgs == {None, Some("false")}

RECURSIVE InsertByStart(_, _)
\* Insertion behind every element whose start is greater or equal: the
\* elements of equal start keep their order.
InsertByStart(sorted, d) ==
    IF sorted = <<>> THEN <<d>>
    ELSE IF Head(sorted).start >= d.start
         THEN <<Head(sorted)>> \o InsertByStart(Tail(sorted), d)
         ELSE <<d>> \o sorted

RECURSIVE SortedAscending(_)
\* sorted(docstrings, key=start) without reverse: from the top down.
SortedAscending(ds) ==
    IF ds = <<>> THEN <<>>
    ELSE LET rest == SortedAscending(Tail(ds))
             d == Head(ds)
             k == Cardinality({i \in 1..Len(rest) : rest[i].start < d.start})
         IN  SubSeq(rest, 1, k) \o <<d>> \o SubSeq(rest, k + 1, Len(rest))

RECURSIVE SortedReverse(_)
\* sorted(docstrings, key=lambda x: x.start, reverse=True)
SortedReverse(ds) ==
    IF ds = <<>> THEN <<>>
    ELSE InsertByStart(SortedReverse(SubSeq(ds, 1, Len(ds) - 1)), ds[Len(ds)])

\* new_lines[start:end] = new_doc
SliceAssign(list, start, end, new_doc) ==
    LET lo == Min(start, Len(list))
        hi == Max(lo, Min(end, Len(list)))
    IN  SubSeq(list, 1, lo) \o new_doc \o SubSeq(list, hi + 1, Len(list))

\* get_writer(output_style): the writer class, or ValueError
get_writer(output_style) ==
    IF output_style \in OutputStyles THEN output_style ELSE "ValueError"

\* A loop body whose parser takes any first line: a capture without opening
\* delimiter goes through like the others.
LoopErrorAnyFirstLine(rawdoc, cfg) ==
    IF get_parser(<<>>, Some(cfg.input_style)) = "ValueError"
    THEN Some("ValueError: not a supported parser style")
    ELSE IF get_writer(cfg.output_style) = "ValueError"
    THEN Some("ValueError: not a supported writer style")
    ELSE IF cfg.convert_epytext_markup = None
    THEN Some("AttributeError: convert_epytext_markup")
    ELSE None

\* The body of `for raw_doc in docstrings`: the exception it raises, or None
\* (get_parser raises on the style alone, whatever the lines).
LoopError(rawdoc, cfg) ==
    IF get_parser(<<>>, Some(cfg.input_style)) = "ValueError"
    THEN Some("ValueError: not a supported parser style")
    ELSE IF rawdoc.malformed
    THEN Some("ValueError: Docstring lines must be valid python string")
    ELSE IF get_writer(cfg.output_style) = "ValueError"
    THEN Some("ValueError: not a supported writer style")
    ELSE IF cfg.convert_epytext_markup = None
    THEN Some("AttributeError: convert_epytext_markup")
    ELSE None

InitConvert ==
    /\ \E n \in 1..MaxFileLines :
          /\ file = FileOf(n)
          /\ module \in [docstrings : DocstringLists(n),
                         error : {None, Some("IndentationError")}]
    /\ config \in [input_style : InputStyleArgs,
                   output_style : OutputStyleArgs,
                   convert_epytext_markup : MarkupArgs]
    /\ in_place \in BOOLEAN
    /\ src_lines = <<>>
    /\ new_lines = <<>>
    /\ sorted_docs = <<>>
    /\ convert_pc = "start"
    /\ raised = None
    /\ writes = 0
    /\ InitOthersOfConvert

\* Lines 92-99: read the file, parse the module, copy the lines and sort
\* the docstrings; an error of module.parse() goes to the caller.
ReadAndParse ==
    /\ convert_pc = "start"
    /\ src_lines' = file
    /\ IF module.error # None
       THEN /\ convert_pc' = "raised"
            /\ raised' = module.error
            /\ UNCHANGED <<new_lines, sorted_docs>>
       ELSE /\ convert_pc' = "loop"
            /\ new_lines' = file
            /\ sorted_docs' = SortedReverse(module.docstrings)
            /\ UNCHANGED raised
    /\ UNCHANGED <<file, config, in_place, module, writes>>
    /\ UNCHANGED othersOfConvert

\* A loop body that also saves the file after each replacement.
ConvertDocstringAndSave ==
    /\ convert_pc = "loop"
    /\ sorted_docs # <<>>
    /\ LoopError(Head(sorted_docs), config) = None
    /\ LET rawdoc == Head(sorted_docs)
       IN  new_lines' = SliceAssign(new_lines, rawdoc.start, rawdoc.end,
                                    NewDoc(rawdoc))
    /\ sorted_docs' = Tail(sorted_docs)
    /\ file' = new_lines'
    /\ writes' = writes + 1
    /\ UNCHANGED <<config, in_place, module, src_lines, convert_pc, raised>>
    /\ UNCHANGED othersOfConvert

\* Lines 100-117, one pass of the loop that completes: parse the capture,
\* write it and put the new lines in place of the old ones.
ConvertDocstring ==
    /\ convert_pc = "loop"
    /\ sorted_docs # <<>>
    /\ LoopError(Head(sorted_docs), config) = None
    /\ LET rawdoc == Head(sorted_docs)
       IN  new_lines' = SliceAssign(new_lines, rawdoc.start, rawdoc.end,
                                    NewDoc(rawdoc))
    /\ sorted_docs' = Tail(sorted_docs)
    /\ UNCHANGED <<file, config, in_place, module, src_lines, convert_pc,
                   raised, writes>>
    /\ UNCHANGED othersOfConvert

\* Lines 100-117, a pass of the loop that raises: nothing catches the
\* exception inside convert_file.
ConvertRaises ==
    /\ convert_pc = "loop"
    /\ sorted_docs # <<>>
    /\ LoopError(Head(sorted_docs), config) # None
    /\ raised' = LoopError(Head(sorted_docs), config)
    /\ convert_pc' = "raised"
    /\ UNCHANGED <<file, config, in_place, module, src_lines, new_lines,
                   sorted_docs, writes>>
    /\ UNCHANGED othersOfConvert

\* Lines 119-122: in place, the new lines are written over the file.
WriteFile ==
    /\ convert_pc = "loop"
    /\ sorted_docs = <<>>
    /\ in_place
    /\ file' = new_lines
    /\ writes' = writes + 1
    /\ convert_pc' = "done"
    /\ UNCHANGED <<config, in_place, module, src_lines, new_lines,
                   sorted_docs, raised>>
    /\ UNCHANGED othersOfConvert

\* Lines 123-136: otherwise the diff is returned and the file is left alone.
ReturnDiff ==
    /\ convert_pc = "loop"
    /\ sorted_docs = <<>>
    /\ ~in_place
    /\ convert_pc' = "done"
    /\ UNCHANGED <<file, config, in_place, module, src_lines, new_lines,
                   sorted_docs, raised, writes>>
    /\ UNCHANGED othersOfConvert

NextConvert ==
    \/ ReadAndParse
    \/ ConvertDocstring
    \/ ConvertRaises
    \/ WriteFile
    \/ ReturnDiff

SpecConvert == InitConvert /\ [][NextConvert]_vars

(***************************************************************************)
(* Properties of convert_file (SpecConvert).                               *)
(***************************************************************************)
\* The new docstring of capture d is in the list, whole and in one piece.
Converted(list, d) ==
    \E k \in 0..(Len(list) - d.new_len) :
        SubSeq(list, k + 1, k + d.new_len) = NewDoc(d)

\* The original lines of capture d are in the list.
Untouched(list, d) ==
    \E k \in 0..Len(list) :
        SubSeq(list, k + 1, k + d.end - d.start) =
            SubSeq(FileOf(d.end), d.start + 1, d.end)

StylesSupported ==
    /\ config.input_style \in InputStyles
    /\ config.output_style \in OutputStyles

\* The run of convert_file has ended, and nothing but a capture without an
\* opening delimiter stood in its way.
EndedWithMalformedOnly ==
    /\ convert_pc \in {"done", "raised"}
    /\ module.error = None
    /\ StylesSupported
    /\ config.convert_epytext_markup # None
    /\ \E i \in 1..Len(module.docstrings) : module.docstrings[i].malformed

C14_AllOrNothing ==
    /\ writes <= 1
    /\ writes > 0 =>
          /\ convert_pc = "done" /\ raised = None /\ sorted_docs = <<>>
          /\ \A i \in 1..Len(module.docstrings) :
                Converted(file, module.docstrings[i])
    /\ convert_pc # "done" => writes = 0 /\ file = FileOf(Len(file))
    /\ convert_pc = "raised" => raised # None /\ writes = 0 /\ file = src_lines

\* C14 witness: a pass of the loop has raised after an earlier pass had
\* replaced a docstring in new_lines, in a run that writes in place.
C14_Witness ==
    /\ convert_pc = "raised"
    /\ in_place
    /\ module.error = None
    /\ new_lines # src_lines
    /\ file = src_lines

\* C15: for every source file, convert_file called with an input or output
\* style name that has no registered parser or writer fails with the
\* unsupported-style error, raised to the caller, and the file is not
\* written.
C15_UnsupportedStyleRaises ==
    (/\ convert_pc \in {"done", "raised"}
     /\ module.error = None
     /\ ~StylesSupported
     /\ \A i \in 1..Len(module.docstrings) : ~module.docstrings[i].malformed)
    => /\ convert_pc = "raised"
       /\ raised \in {Some("ValueError: not a supported parser style"),
                      Some("ValueError: not a supported writer style")}
       /\ writes = 0

\* The source lines that belong to no capture.
OutsideCaptures(list) ==
    LET Outside(l) ==
            /\ l.kind = "src"
            /\ \A i \in 1..Len(module.docstrings) :
                  ~(module.docstrings[i].start <= l.a
                        /\ l.a < module.docstrings[i].end)
    IN  SelectSeq(list, Outside)

\* C17: within one file the replacements are applied in strictly
\* descending order of capture start line, so that, the ranges being
\* disjoint, the slice new_lines[start:end] of every capture not applied yet
\* still holds that capture's original lines, and the lines outside all
\* capture ranges are unchanged and keep their order.
C17_ReplacementsBottomUp ==
    convert_pc \in {"loop", "done"} =>
        /\ \A i, j \in 1..Len(sorted_docs) :
              i < j => sorted_docs[i].start > sorted_docs[j].start
        /\ \A i \in 1..Len(sorted_docs) :
              LET d == sorted_docs[i]
              IN  SubSeq(new_lines, d.start + 1, d.end) =
                      SubSeq(src_lines, d.start + 1, d.end)
        /\ OutsideCaptures(new_lines) = OutsideCaptures(src_lines)

\* C17 witness: two captures were replaced, the lower one after the upper
\* one, each by a docstring of another length than the lines it replaces.
C17_Witness ==
    /\ convert_pc = "done"
    /\ Len(module.docstrings) = 2
    /\ \A i \in 1..2 :
          LET d == module.docstrings[i]
          IN  d.new_len # d.end - d.start /\ Converted(new_lines, d)
    /\ OutsideCaptures(src_lines) # <<>>

(***************************************************************************)
(* writer/base.py: BaseWriter.write, the dispatch on the element type.     *)
(*                                                                         *)
(* An element is a tuple (TYPE,), (TYPE, DATA) or longer.  The handlers    *)
(* are the abstract methods of BaseWriter and write_quotes / write_raw;    *)
(* what is recorded of a handler is that it was called for the element.    *)
(***************************************************************************)
MaxElements == 3

\* BaseWriter._directives
WriterDirectives == {"example", "note", "seealso", "warning", "reference", "todo"}

\* BaseWriter._write_map, set up in __init__
write_map ==
    [kind \in WriterDirectives \cup {"args", "attributes", "raises", "return"} |->
        CASE kind \in WriterDirectives -> "write_directive"
          [] kind = "args" -> "write_args"
          [] kind = "attributes" -> "write_attributes"
          [] kind = "raises" -> "write_raises"
          [] kind = "return" -> "write_returns"]

\* The elements a Docstring is given through add_element and the add_*
\* methods, and some that no writer knows.
ElementArgs ==
    {<<"start_quote", "q">>, <<"end_quote", "q">>,
     <<"raw", "text">>, <<"raw">>, <<"raw", "text", "more">>,
     <<"args">>, <<"attributes">>, <<"raises">>, <<"return">>,
     <<"start_quotes", "q">>, <<"warn", "text">>, <<"returns">>}
        \cup {<<d, "text">> : d \in WriterDirectives}

\* A dispatch that takes every raw element, with or without its data.
DispatchAnyRaw(element) ==
    LET kind == element[1]
    IN  IF kind \in {"start_quote", "end_quote"} THEN "write_quotes"
        ELSE IF kind \in DOMAIN write_map THEN write_map[kind]
        ELSE IF kind = "raw" THEN "write_raw"
        ELSE "InvalidDocstringElementError"

\* The if / elif chain of write(): the handler called for the element, or
\* the exception raised.
Dispatch(element) ==
    LET kind == element[1]
    IN  IF kind \in {"start_quote", "end_quote"} THEN "write_quotes"
        ELSE IF kind \in DOMAIN write_map THEN write_map[kind]
        ELSE IF kind = "raw" /\ Len(element) = 2 THEN "write_raw"
        ELSE "InvalidDocstringElementError"

InitWrite ==
    /\ elements \in UNION {[1..k -> ElementArgs] : k \in 0..MaxElements}
    /\ current_element = 0
    /\ handled = <<>>
    /\ write_pc = "writing"
    /\ write_error = None
    /\ InitOthersOfWrite

\* One pass of `for i, element in enumerate(self.doc.elements)` that calls
\* a handler.
WriteElement ==
    /\ write_pc = "writing"
    /\ Len(handled) < Len(elements)
    /\ LET i == Len(handled) + 1
       IN  /\ Dispatch(elements[i]) # "InvalidDocstringElementError"
           /\ current_element' = i - 1
           /\ handled' = Append(handled, Dispatch(elements[i]))
    /\ UNCHANGED <<elements, write_pc, write_error>>
    /\ UNCHANGED othersOfWrite

\* A pass that reaches the else branch and raises.
WriteRaises ==
    /\ write_pc = "writing"
    /\ Len(handled) < Len(elements)
    /\ LET i == Len(handled) + 1
       IN  /\ Dispatch(elements[i]) = "InvalidDocstringElementError"
           /\ current_element' = i - 1
    /\ write_pc' = "raised"
    /\ write_error' = Some("InvalidDocstringElementError")
    /\ UNCHANGED <<elements, handled>>
    /\ UNCHANGED othersOfWrite

\* return self.output
WriteReturns ==
    /\ write_pc = "writing"
    /\ Len(handled) = Len(elements)
    /\ write_pc' = "done"
    /\ UNCHANGED <<elements, current_element, handled, write_error>>
    /\ UNCHANGED othersOfWrite

NextWrite ==
    \/ WriteElement
    \/ WriteRaises
    \/ WriteReturns

SpecWrite == InitWrite /\ [][NextWrite]_vars

\* The handler the claim names for an element, "none" when its tag is not
\* one of the recognized kinds.
HandlerOfTag(element) ==
    CASE element[1] \in {"start_quote", "end_quote"} -> "write_quotes"
      [] element[1] = "raw" /\ Len(element) = 2 -> "write_raw"
      [] element[1] = "args" -> "write_args"
      [] element[1] = "attributes" -> "write_attributes"
      [] element[1] = "raises" -> "write_raises"
      [] element[1] = "return" -> "write_returns"
      [] element[1] \in {"note", "warning", "seealso", "reference", "todo",
                         "example"} -> "write_directive"
      [] OTHER -> "none"

Quotes == "\"\"\""

TextLine(indent, lead, words, colon, tail) ==
    [indent |-> indent, open |-> "", lead |-> lead, words |-> words,
     colon |-> colon, tail |-> tail, close |-> "", after |-> ""]

Blank == TextLine(0, "", <<>>, FALSE, "")

Plain(indent, text) == TextLine(indent, "", <<text>>, FALSE, "")

\* str.isspace() or the empty str: nothing but blanks on the line.
IsBlank(line) ==
    /\ line.open = "" /\ line.lead = "" /\ line.words = <<>>
    /\ ~line.colon /\ line.tail = "" /\ line.close = ""

\* The characters of a word, for the names the model uses.
Chars(w) ==
    CASE w = "*a" -> <<"*", "a">>
      [] w = "**k" -> <<"*", "*", "k">>
      [] OTHER -> <<w>>

RECURSIVE Str(_)
\* The str made of the characters of a name.
Str(name) == IF name = <<>> THEN "" ELSE Head(name) \o Str(Tail(name))

RECURSIVE JoinStr(_, _)
\* sep.join(strs)
JoinStr(strs, sep) ==
    IF strs = <<>> THEN ""
    ELSE IF Len(strs) = 1 THEN strs[1]
    ELSE strs[1] \o sep \o JoinStr(Tail(strs), sep)

\* The text of a line from its lead on, as the str it is in the source.
Text(line) ==
    LET head == (IF line.lead = ".." THEN ".. " ELSE line.lead)
                    \o JoinStr(line.words, " ")
        mark == IF ~line.colon THEN ""
                ELSE IF line.lead = ".." THEN "::" ELSE ":"
        rest == IF line.tail = "" THEN ""
                ELSE IF line.colon THEN " " \o line.tail ELSE line.tail
    IN  head \o mark \o rest

\* line_utils.get_indent(line)
get_indent(line) == line.indent

\* line_utils.is_indented(line, indent, exact)
is_indented(line, indent, exact) ==
    /\ ~IsBlank(line)
    /\ IF exact THEN line.indent = indent ELSE line.indent >= indent

\* line_utils.dedent(line, indent)
dedent(line, indent) ==
    IF IsBlank(line) THEN line
    ELSE [line EXCEPT !.indent = IF @ >= indent THEN @ - indent ELSE 0]

\* line_utils.dedent_by_minimum(lines)
dedent_by_minimum(ls) ==
    LET filled == {i \in 1..Len(ls) : ~IsBlank(ls[i])}
        dedent_len == IF filled = {} THEN 0
                      ELSE CHOOSE m \in {ls[i].indent : i \in filled} :
                               \A i \in filled : m <= ls[i].indent
    IN  [i \in 1..Len(ls) |-> dedent(ls[i], dedent_len)]

\* BaseParser._strip_start: the opening quotes leave the first line and
\* become the start_quote element; the indentation of the line stays.
strip_start(ls) == [ls EXCEPT ![1].open = ""]

\* The line that holds the closing quotes, searched from the last line up.
EndLine(ls) ==
    CHOOSE i \in 1..Len(ls) :
        /\ ls[i].close # ""
        /\ \A j \in (i + 1)..Len(ls) : ls[j].close = ""

\* BaseParser._strip_end: the closing quotes and what follows them leave
\* their line, the line goes when nothing but blanks is left of it, and so
\* do the lines after it.
strip_end(ls) ==
    LET i == EndLine(ls)
        before_quotes == [ls[i] EXCEPT !.close = "", !.after = ""]
    IN  IF IsBlank(before_quotes) THEN SubSeq(ls, 1, i - 1)
        ELSE SubSeq(ls, 1, i - 1) \o <<before_quotes>>

\* BaseParser._strip_end: self._lines_after_docstring, the text after the
\* closing quotes on their line and then the lines after that line.
lines_after_docstring(ls) ==
    LET i == EndLine(ls)
        after_quotes == IF ls[i].after # "" THEN <<Plain(0, ls[i].after)>> ELSE <<>>
    IN  after_quotes \o SubSeq(ls, i + 1, Len(ls))

\* BaseParser.current_line for the line under the cursor.
current_line(ls, num, indent) ==
    LET line == ls[num + 1]
    IN  IF IsBlank(line) THEN Blank
        ELSE IF is_indented(line, indent, FALSE) THEN dedent(line, indent)
        ELSE line

\* A check that takes every line with text.
is_token_indent_any(ls, num, indent) == ~IsBlank(ls[num + 1])

\* BaseParser._is_token_indent
is_token_indent(ls, num, indent) == is_indented(ls[num + 1], indent, TRUE)

RECURSIVE BodyLoop(_, _, _, _, _, _)
\* The while loop of parse_body: the lines of the body and the cursor
\* after it; the blank lines before the line that ends the body are
\* given back.
BodyLoop(ls, num, self_indent, indent, empty_lines, body) ==
    IF num >= Len(ls) THEN [body |-> body, line_num |-> num]
    ELSE LET line == current_line(ls, num, self_indent)
         IN  IF IsBlank(line)
             THEN BodyLoop(ls, num + 1, self_indent, indent,
                           empty_lines + 1, body)
             ELSE IF is_indented(line, indent, FALSE)
             THEN BodyLoop(ls, num + 1, self_indent, indent, 0,
                           body \o [k \in 1..empty_lines |-> Blank] \o <<line>>)
             ELSE [body |-> body, line_num |-> num - empty_lines]

\* A body that leaves the cursor on the line of its token.
parse_body_at_token(ls, num, self_indent, indent, first_line) ==
    [body |-> IF first_line # "" THEN <<Plain(0, first_line)>> ELSE <<>>,
     line_num |-> num]

\* BaseParser.parse_body(indent, startpos): first_line is the text of the
\* current line from startpos on.
parse_body(ls, num, self_indent, indent, first_line) ==
    LET r == BodyLoop(ls, num + 1, self_indent, indent, 0, <<>>)
        body == dedent_by_minimum(r.body)
    IN  [body |-> IF first_line # "" THEN <<Plain(0, first_line)>> \o body
                  ELSE body,
         line_num |-> r.line_num]

\* BaseParser._directives
directive_map ==
    [w \in Directives |->
        CASE w \in {"warning", "warn"} -> "warning"
          [] w \in {"see", "seealso"} -> "seealso"
          [] w \in {"reference", "ref"} -> "reference"
          [] w \in {"example", "examples"} -> "example"
          [] OTHER -> w]

RECURSIVE Spaces(_)
\* A str of n blanks.
Spaces(n) == IF n = 0 THEN "" ELSE " " \o Spaces(n - 1)

\* " ".join(body): the lines of a body, each with its indentation, as one
\* str.
BodyText(body) ==
    JoinStr([i \in 1..Len(body) |-> Spaces(body[i].indent) \o Text(body[i])], " ")

\* A parser object: BaseParser.__init__ with the lines of a capture and the
\* keywords given by convert_file.
NewParser(cls, ls, kws) ==
    [cls |-> cls,
     lines |-> strip_end(strip_start(ls)),
     lines_after |-> lines_after_docstring(ls),
     line_num |-> 0,
     raw_indent |-> ls[1].indent,
     indent |-> ls[1].indent,
     quotes |-> ls[1].open,
     keywords |-> kws,
     doc |-> add_element(NewDocstring, <<"start_quote", ls[1].open>>),
     pc |-> "leading"]

\* The groups of a field match: the words after the lead, "" when absent.
Group(line, k) == IF k <= Len(line.words) THEN line.words[k] ELSE ""

\* The body of the token on the current line, and the parser after it.
Body(p, line) == parse_body(p.lines, p.line_num, p.indent, 1, line.tail)

\* BaseParser.parse_directive(match)
parse_directive(p, line) ==
    LET b == Body(p, line)
    IN  [p EXCEPT !.line_num = b.line_num,
                  !.doc = add_element(@, <<directive_map[line.words[1]], b.body>>)]

\* RestParser.parse_arg(match)
rest_parse_arg(p, line) ==
    LET kind == IF Group(line, 3) # "" THEN Some(Group(line, 2)) ELSE None
        arg == IF Group(line, 3) # "" THEN Group(line, 3) ELSE Group(line, 2)
        b == Body(p, line)
        optional == Lstrip(Chars(arg), "*") \in p.keywords
    IN  [p EXCEPT !.line_num = b.line_num,
                  !.doc = add_arg(@, Chars(arg), kind, Some(b.body), optional)]

\* EpytextParser.parse_arg(match)
epytext_parse_arg(p, line) ==
    LET arg == Group(line, 2)
        b == Body(p, line)
        optional == Lstrip(Chars(arg), "*") \in p.keywords
    IN  [p EXCEPT !.line_num = b.line_num,
                  !.doc = add_arg(@, Chars(arg), None, Some(b.body), optional)]

\* RestParser.parse_type(match)
parse_type(p, line) ==
    LET field == Lower(Group(line, 1))
        arg == Lstrip(Chars(Group(line, 2)), "*")
        b == Body(p, line)
        kind == BodyText(b.body)
        is_attribute == /\ IndexOf(p.doc.attribute_fields, arg) # 0
                        /\ IndexOf(p.doc.arg_fields, arg) = 0
    IN  [p EXCEPT !.line_num = b.line_num,
                  !.doc = IF field = "vartype" \/ is_attribute
                          THEN add_attribute_type(@, arg, Some(kind))
                          ELSE add_arg_type(@, arg, Some(kind))]

\* RestParser.parse_return(match)
parse_return(p, line) ==
    LET field == Lower(Group(line, 1))
        b == Body(p, line)
    IN  [p EXCEPT !.line_num = b.line_num,
                  !.doc = IF field \in {"rtype", "returntype"}
                          THEN add_return_type(@, Some(BodyText(b.body)))
                          ELSE add_return(@, None, Some(b.body))]

\* RestParser.parse_var(match)
rest_parse_var(p, line) ==
    LET kind == IF Group(line, 3) # "" THEN Some(Group(line, 2)) ELSE None
        var == IF Group(line, 3) # "" THEN Group(line, 3) ELSE Group(line, 2)
        b == Body(p, line)
    IN  [p EXCEPT !.line_num = b.line_num,
                  !.doc = add_attribute(@, Chars(var), kind, Some(b.body))]

\* EpytextParser.parse_var(match)
epytext_parse_var(p, line) ==
    LET b == Body(p, line)
    IN  [p EXCEPT !.line_num = b.line_num,
                  !.doc = add_attribute(@, Chars(Group(line, 2)), None, Some(b.body))]

\* line.split(":", 1) in parse_group: the stripped text before the first
\* ':' of the line, and the stripped text after it (None without a ':').
SplitName(line) ==
    IF line.lead = ":" THEN ""
    ELSE (IF line.lead = ".." THEN ".. " ELSE line.lead) \o JoinStr(line.words, " ")

SplitKind(line) ==
    IF line.lead = ":"
    THEN Some(JoinStr(line.words, " ") \o (IF line.colon THEN ":" ELSE "")
                \o (IF line.tail # "" /\ line.colon THEN " " ELSE "") \o line.tail)
    ELSE IF ~line.colon THEN None
    ELSE IF line.lead = ".."
    THEN Some(":" \o (IF line.tail # "" THEN " " ELSE "") \o line.tail)
    ELSE Some(line.tail)

\* One pass of the while loop of parse_group: the field of one indented line.
group_item(p, group) ==
    LET line == current_line(p.lines, p.line_num, p.indent)
        name == Chars(SplitName(line))
        kind == SplitKind(line)
        b == parse_body(p.lines, p.line_num, p.indent, get_indent(line) + 1, "")
        optional == Lstrip(name, "*") \in p.keywords
        d == IF group \in {"attributes", "variables", "ivariables", "cvariables"}
             THEN add_attribute(p.doc, name, kind, Some(b.body))
             ELSE IF group \in {"exceptions", "raises"}
             THEN add_raises(p.doc, Some(SplitName(line)), Some(b.body))
             ELSE add_arg(p.doc, name, kind, Some(b.body), optional)
    IN  [p EXCEPT !.line_num = b.line_num, !.doc = d]

\* The loop of parse_group goes on: a line is left and it is indented.
in_group(p) ==
    /\ p.line_num < Len(p.lines)
    /\ is_indented(current_line(p.lines, p.line_num, p.indent), 1, FALSE)

RECURSIVE GroupLoop(_, _)
\* The while loop of parse_group over the indented lines of the group.
GroupLoop(p, group) ==
    IF in_group(p) THEN GroupLoop(group_item(p, group), group) ELSE p

\* RestParser.parse_group(match)
parse_group(p, line) ==
    LET group == Lower(Group(line, 1))
    IN  IF group \in {"example", "examples"}
        THEN LET b == Body(p, line)
             IN  [p EXCEPT !.line_num = b.line_num,
                           !.doc = add_element(@, <<"example", b.body>>)]
        ELSE GroupLoop([p EXCEPT !.line_num = @ + 1], group)

\* RestParser.parse_raise(match)
parse_raise(p, line) ==
    IF Group(line, 2) = "" THEN parse_group(p, line)
    ELSE LET b == Body(p, line)
         IN  [p EXCEPT !.line_num = b.line_num,
                       !.doc = add_raises(@, Some(Group(line, 2)), Some(b.body))]

\* self._parse_map[field](match): setup_map lets a later pair overwrite an
\* earlier one, so "raises" is taken by parse_raise.
parse_field(p, line) ==
    LET field == Lower(Group(line, 1))
    IN  IF field \in Rest_arg_fields
        THEN IF p.cls = "EpytextParser" THEN epytext_parse_arg(p, line)
             ELSE rest_parse_arg(p, line)
        ELSE IF field \in Rest_raises_fields THEN parse_raise(p, line)
        ELSE IF field \in Rest_var_fields
        THEN IF p.cls = "EpytextParser" THEN epytext_parse_var(p, line)
             ELSE rest_parse_var(p, line)
        ELSE IF field \in Rest_return_fields THEN parse_return(p, line)
        ELSE IF field \in Rest_type_fields THEN parse_type(p, line)
        ELSE parse_group(p, line)

\* BaseParser._directive_re matches the line and its word is a directive.
DirectiveMatch(line) ==
    /\ line.indent = 0 /\ line.lead = ".." /\ line.colon
    /\ Len(line.words) = 1
    /\ line.words[1] \in Directives

\* EpytextParser._field_re matches the line.
EpytextFieldRe(line) ==
    /\ line.indent = 0 /\ line.lead = "@" /\ line.colon
    /\ Len(line.words) \in 1..2

\* parse_token of the three classes: whether the current line is a token,
\* and the parser after the token's handler.
parse_token(p) ==
    LET line == current_line(p.lines, p.line_num, p.indent)
        no == [token |-> FALSE, parser |-> p]
    IN  CASE p.cls = "BaseParser" ->
              IF DirectiveMatch(line)
              THEN [token |-> TRUE, parser |-> parse_directive(p, line)]
              ELSE no
          [] p.cls = "RestParser" ->
              IF RestMatch(line)
              THEN [token |-> TRUE, parser |-> parse_field(p, line)]
              ELSE IF DirectiveMatch(line)
              THEN [token |-> TRUE, parser |-> parse_directive(p, line)]
              ELSE no
          [] p.cls = "EpytextParser" ->
              IF ~EpytextFieldRe(line) THEN no
              ELSE LET field == Lower(Group(line, 1))
                       matches_epy == IF Group(line, 2) # ""
                                      THEN field \in Rest_double_fields
                                      ELSE field \in Epytext_single_fields
                   IN  IF matches_epy
                       THEN [token |-> TRUE, parser |-> parse_field(p, line)]
                       ELSE IF Group(line, 1) \in Directives
                       THEN [token |-> TRUE, parser |-> parse_directive(p, line)]
                       ELSE no

(***************************************************************************)
(* The captures parsed here: up to MaxParseLines lines between the quotes; *)
(* the opening quotes start the first line, the closing quotes stand on a  *)
(* line of their own or end the last line.  Nothing follows the closing    *)
(* quotes, so _lines_after_docstring stays empty.                          *)
(***************************************************************************)
MaxParseLines == 3

ParserClasses == {"BaseParser", "RestParser", "EpytextParser"}

\* Lines every class is given, and lines in the grammar of one class.
CommonLines ==
    {Blank, Plain(0, "Desc."), Plain(4, "more"),
     TextLine(0, "..", <<"note">>, TRUE, "n")}

ClassLines(cls) ==
    CASE cls = "BaseParser" ->
            {TextLine(0, "..", <<"foo">>, TRUE, "n"),
             TextLine(0, ":", <<"param", "a">>, TRUE, "d1")}
      [] cls = "RestParser" ->
            {TextLine(0, ":", <<"param", "k">>, TRUE, "d1"),
             TextLine(0, ":", <<"type", "k">>, TRUE, "int"),
             TextLine(0, ":", <<"keywords">>, TRUE, ""),
             TextLine(4, "", <<"k">>, TRUE, "int"),
             TextLine(0, ":", <<"foo">>, TRUE, "")}
      [] cls = "EpytextParser" ->
            {TextLine(0, "@", <<"param", "**k">>, TRUE, "d1"),
             TextLine(0, "@", <<"Param", "a">>, TRUE, ""),
             TextLine(0, "@", <<"type", "k">>, TRUE, "int"),
             TextLine(0, "@", <<"note">>, TRUE, "n"),
             TextLine(0, "@", <<"foo", "x">>, TRUE, "")}

\* The capture made of the lines ls: the quotes open the first line, and
\* close the last line or stand on a line after it.
Enclose(ls, one_line) ==
    LET opened == [ls EXCEPT ![1].open = Quotes]
    IN  IF one_line THEN [opened EXCEPT ![Len(ls)].close = Quotes]
        ELSE opened \o <<[Blank EXCEPT !.close = Quotes]>>

ParseCaptures(cls) ==
    {Enclose(ls, one_line) :
        ls \in UNION {[1..n -> CommonLines \cup ClassLines(cls)] :
                          n \in 1..MaxParseLines},
        one_line \in BOOLEAN}

\* The signature the Locator found: RawDocstring.keywords and .kwarg.
Signature(kws, kwarg) == [keywords |-> kws, kwarg |-> kwarg]

LocatorSignatures ==
    {Signature(<<>>, None), Signature(<< <<"k">> >>, None),
     Signature(<<>>, Some(<<"a">>))}

\* keywords = raw_doc.keywords + [raw_doc.kwarg], as the names a parser
\* looks up; a kwarg of None equals no name.
ConvertKeywords(kws, kwarg) == {kws[i] : i \in 1..Len(kws)} \cup kwarg

InitParse ==
    /\ \E cls \in ParserClasses, sig \in LocatorSignatures :
         \E ls \in ParseCaptures(cls) :
            /\ parsing = NewParser(cls, ls, ConvertKeywords(sig.keywords, sig.kwarg))
            /\ signature = sig
    /\ InitOthersOfParse

\* The raw element for the current line, and lines.next().
add_raw(p) ==
    [p EXCEPT !.doc = add_element(@, <<"raw",
                          <<current_line(p.lines, p.line_num, p.indent)>> >>),
              !.line_num = @ + 1]

\* A fallback that keeps the line but leaves the cursor on it.
add_raw_no_next(p) ==
    [p EXCEPT !.doc = add_element(@, <<"raw",
                          <<current_line(p.lines, p.line_num, p.indent)>> >>)]

\* except NotParsableError: the line becomes a raw element.
not_parsable(p) == add_raw(p)

\* First loop of parse(): a blank line before the text becomes a raw
\* element.
SkipLeadingBlank ==
    /\ parsing.pc = "leading"
    /\ parsing.line_num < Len(parsing.lines)
    /\ IsBlank(current_line(parsing.lines, parsing.line_num, parsing.indent))
    /\ parsing' = add_raw(parsing)
    /\ UNCHANGED signature
    /\ UNCHANGED othersOfParse

\* self.indent = len(start_tokens.group(0)); break
find_indent(p) ==
    [p EXCEPT !.indent = p.lines[p.line_num + 1].indent, !.pc = "tokens"]

\* First loop of parse(): the first line with text gives the indent of the
\* section and the loop breaks; so does the end of the lines.
FindIndent ==
    /\ parsing.pc = "leading"
    /\ \/ /\ parsing.line_num < Len(parsing.lines)
          /\ ~IsBlank(current_line(parsing.lines, parsing.line_num, parsing.indent))
          /\ parsing' = find_indent(parsing)
       \/ /\ ~(parsing.line_num < Len(parsing.lines))
          /\ parsing' = [parsing EXCEPT !.pc = "tokens"]
    /\ UNCHANGED signature
    /\ UNCHANGED othersOfParse

\* Second loop: a line at token indent that parse_token takes.
ParseToken ==
    /\ parsing.pc = "tokens"
    /\ parsing.line_num < Len(parsing.lines)
    /\ is_token_indent(parsing.lines, parsing.line_num, parsing.indent)
    /\ parse_token(parsing).token
    /\ parsing' = parse_token(parsing).parser
    /\ UNCHANGED signature
    /\ UNCHANGED othersOfParse

\* Second loop: a line at token indent for which parse_token raises
\* NotParsableError.
ParseNotParsable ==
    /\ parsing.pc = "tokens"
    /\ parsing.line_num < Len(parsing.lines)
    /\ is_token_indent(parsing.lines, parsing.line_num, parsing.indent)
    /\ ~parse_token(parsing).token
    /\ parsing' = not_parsable(parsing)
    /\ UNCHANGED signature
    /\ UNCHANGED othersOfParse

\* Second loop: a line that is not at token indent.
ParseRawLine ==
    /\ parsing.pc = "tokens"
    /\ parsing.line_num < Len(parsing.lines)
    /\ ~is_token_indent(parsing.lines, parsing.line_num, parsing.indent)
    /\ parsing' = add_raw(parsing)
    /\ UNCHANGED signature
    /\ UNCHANGED othersOfParse

\* An end that drops the lines after the docstring.
parse_end_quote_only(p) ==
    [p EXCEPT !.doc = add_element(@, <<"end_quote", p.quotes>>), !.pc = "done"]

\* self.doc.add_element(("end_quote", self.quotes)), and the raw element
\* of the lines after the docstring if there are any.
parse_end(p) ==
    LET ended == add_element(p.doc, <<"end_quote", p.quotes>>)
    IN  [p EXCEPT !.doc = IF p.lines_after # <<>>
                          THEN add_element(ended, <<"raw", p.lines_after>>)
                          ELSE ended,
                  !.pc = "done"]

\* After the loops: the end_quote element.
ParseEnd ==
    /\ parsing.pc = "tokens"
    /\ ~(parsing.line_num < Len(parsing.lines))
    /\ parsing' = parse_end(parsing)
    /\ UNCHANGED signature
    /\ UNCHANGED othersOfParse

\* try: self.parse_token() ... except NotParsableError: the raw line
token_or_raw(p, t) == IF t.token THEN t.parser ELSE not_parsable(p)

\* One pass of a loop of parse(), or the end_quote element after them.
parse_step(p) ==
    CASE p.pc = "leading" ->
            IF ~has_next(p.lines, p.line_num) THEN [p EXCEPT !.pc = "tokens"]
            ELSE IF IsBlank(current_line(p.lines, p.line_num, p.indent))
            THEN add_raw(p)
            ELSE find_indent(p)
      [] p.pc = "tokens" ->
            IF ~has_next(p.lines, p.line_num) THEN parse_end(p)
            ELSE IF ~is_token_indent(p.lines, p.line_num, p.indent)
            THEN add_raw(p)
            ELSE token_or_raw(p, parse_token(p))
      [] OTHER -> p

RECURSIVE parse(_)
\* BaseParser.parse(): the parser after both loops.
parse(p) == IF p.pc = "done" THEN p ELSE parse(parse_step(p))

NextParse ==
    \/ SkipLeadingBlank
    \/ FindIndent
    \/ ParseToken
    \/ ParseNotParsable
    \/ ParseRawLine
    \/ ParseEnd

SpecParse == InitParse /\ [][NextParse]_vars

(***************************************************************************)
(* Properties of parse()                                                   *)
(***************************************************************************)
\* The line under the cursor of the second loop, when there is one.
AtLine == parsing.pc = "tokens" /\ parsing.line_num < Len(parsing.lines)

CurrentLine == current_line(parsing.lines, parsing.line_num, parsing.indent)

\* The line matches a token pattern of the class: a directive for
\* BaseParser; a field or a directive for RestParser; a field, or a
\* directive written as a field, for EpytextParser.
MatchesTokenPattern(cls, line) ==
    LET directive == /\ line.lead = ".." /\ line.colon /\ Len(line.words) = 1
                     /\ line.words[1] \in DOMAIN directive_map
        n == Len(line.words)
        field == IF n > 0 THEN Lower(line.words[1]) ELSE ""
    IN  /\ line.indent = 0
        /\ CASE cls = "BaseParser" -> directive
             [] cls = "RestParser" ->
                   \/ directive
                   \/ /\ line.lead = ":" /\ line.colon
                      /\ \/ n = 3 /\ field \in Rest_triple_fields
                         \/ n = 2 /\ field \in Rest_double_fields
                         \/ n = 1 /\ field \in Rest_single_fields
             [] cls = "EpytextParser" ->
                   /\ line.lead = "@" /\ line.colon
                   /\ \/ n = 2 /\ field \in Rest_double_fields
                      \/ n = 1 /\ field \in Rest_return_fields
                      \/ n \in 1..2 /\ line.words[1] \in DOMAIN directive_map

\* C12: NotParsableError never escapes parse(): when the loop stands on a
\* line at token indent that matches no token pattern of the parser class,
\* its step appends exactly one ('raw', line) element, moves the cursor by
\* exactly one line, leaves the field tables alone and stays in the loop.
C12_UnmatchedLineBecomesRaw ==
    [][(/\ AtLine
        /\ is_token_indent(parsing.lines, parsing.line_num, parsing.indent)
        /\ ~MatchesTokenPattern(parsing.cls, CurrentLine))
       => /\ parsing'.doc =
                [parsing.doc EXCEPT
                    !.elements = Append(@, <<"raw", <<CurrentLine>> >>)]
          /\ parsing'.line_num = parsing.line_num + 1
          /\ parsing'.pc = "tokens"]_vars

\* C12 witness: a RestParser has turned the line ":foo:" into a raw
\* element and has parsed the argument token of the next line.
C12_Witness ==
    /\ parsing.cls = "RestParser"
    /\ parsing.pc = "done"
    /\ \E i \in 1..Len(parsing.doc.elements) - 1 :
          /\ parsing.doc.elements[i] =
                <<"raw", <<TextLine(0, ":", <<"foo">>, TRUE, "")>> >>
          /\ parsing.doc.elements[i + 1] = <<"args">>

\* C20: after parsing, every Field of arg_fields is optional exactly when
\* its bare name is one of the keyword-parameter names the Locator found
\* for the capture.
C20_OptionalIffKeyword ==
    parsing.pc = "done" =>
        \A i \in 1..Len(parsing.doc.arg_fields) :
            parsing.doc.arg_fields[i].optional
                <=> \E j \in 1..Len(signature.keywords) :
                        signature.keywords[j] = parsing.doc.arg_fields[i].name

(***************************************************************************)
(* writer/base.py, writer/rest.py, writer/epytext.py: what the handlers    *)
(* write.  The output is a list of lines in the same form as the lines a   *)
(* parser reads.  Names and types are single words and every text is       *)
(* shorter than max_line_length less the longest header, so that           *)
(* textwrap.wrap returns the text it is given as one line.                 *)
(***************************************************************************)
\* DEFAULT_CONFIG["output"], with realign and convert_epytext_markup as
\* given; DEFAULT_CONFIG itself has no convert_epytext_markup (None here).
OutputConfig(realign, markup) ==
    [first_line |-> TRUE,
     standard_indent |-> 4,
     realign |-> realign,
     max_line_length |-> 72,
     use_optional |-> FALSE,
     use_types |-> TRUE,
     separate_keywords |-> FALSE,
     convert_epytext_markup |-> markup]

\* BaseWriter.__init__ of a RestWriter or an EpytextWriter; reading a
\* missing convert_epytext_markup raises AttributeError.
NewWriter(style, d, section_indent, cfg) ==
    [style |-> style,
     doc |-> d,
     config |-> cfg,
     section_indent |-> section_indent,
     error |-> IF cfg.convert_epytext_markup = None THEN "AttributeError" ELSE ""]

\* What write() changes as it goes: self.output and self._elements_written,
\* and the exception raised, if any.
NewOutput(w) == [output |-> <<>>, elements_written |-> 0, error |-> w.error]

\* output[-1].rstrip() + line, for a last line that holds the opening
\* quotes only, or a line that is the closing quotes.
AppendToLast(last, line) ==
    IF line.close # "" THEN [last EXCEPT !.close = line.close]
    ELSE [line EXCEPT !.indent = last.indent, !.open = last.open]

\* BaseWriter.write_line(line, indent, append, force), for the output o so
\* far.
write_line(w, o, line, indent, append, force) ==
    LET after_quote == o.elements_written = 1
        after_newline == o.output # <<>> /\ IsBlank(o.output[Len(o.output)])
        skipped == IsBlank(line) /\ ~force /\ (after_quote \/ after_newline)
        placed == IF IsBlank(line) THEN Blank
                  ELSE [line EXCEPT !.indent = @ + w.section_indent
                                        + indent * w.config.standard_indent]
    IN  IF skipped THEN o
        ELSE IF append
        THEN [o EXCEPT !.output[Len(o.output)] =
                            IF IsBlank(line) THEN @ ELSE AppendToLast(@, line),
                       !.elements_written = @ + 1]
        ELSE [o EXCEPT !.output = Append(@, placed),
                       !.elements_written = @ + 1]

RECURSIVE write_lines(_, _, _, _)
\* for line in lines: self.write_line(line, indent=indent)
write_lines(w, o, ls, indent) ==
    IF ls = <<>> THEN o
    ELSE write_lines(w, write_line(w, o, Head(ls), indent, FALSE, FALSE),
                     Tail(ls), indent)

RECURSIVE write_raw(_, _, _)
\* BaseWriter.write_raw(lines): the first line written after the opening
\* quotes is appended to them when first_line is set; the texts of the
\* model hold no markup.
write_raw(w, o, ls) ==
    IF ls = <<>> THEN o
    ELSE write_raw(w, write_line(w, o, Head(ls), 0,
                                 o.elements_written = 1 /\ w.config.first_line,
                                 FALSE),
                   Tail(ls))

\* BaseWriter.write_quotes(kind, quotes); replace_quotes is empty.
write_quotes(w, o, kind, quotes) ==
    LET one_line_doc == kind = "end_quote" /\ Len(o.output) = 1
        line == IF kind = "start_quote" THEN [Blank EXCEPT !.open = quotes]
                ELSE [Blank EXCEPT !.close = quotes]
    IN  write_line(w, o, line, 0, one_line_doc, FALSE)

\* The str of a line of a description.
LineStr(line) ==
    IF IsBlank(line) THEN "" ELSE Spaces(line.indent) \o Text(line)

\* " ".join(lines) as one line: the texts after the first line follow the
\* text of the first line.
JoinLines(ls) ==
    LET first == ls[1]
        others == [i \in 1..(Len(ls) - 1) |-> LineStr(ls[i + 1])]
    IN  IF first.colon
        THEN [first EXCEPT !.tail =
                 JoinStr((IF @ = "" THEN <<>> ELSE <<@>>) \o others, " ")]
        ELSE [first EXCEPT !.words = <<JoinStr(<<Text(first)>> \o others, " ")>>,
                           !.lead = ""]

\* The number of leading lines _reformat_lines joins: those before the
\* first blank or indented line, none without realign.
ReplaceTo(cfg, ls) ==
    IF ~cfg.realign THEN 0
    ELSE IF \E i \in 1..Len(ls) : IsBlank(ls[i]) \/ is_indented(ls[i], 1, FALSE)
    THEN (CHOOSE i \in 1..Len(ls) :
             /\ IsBlank(ls[i]) \/ is_indented(ls[i], 1, FALSE)
             /\ \A j \in 1..(i - 1) :
                   ~(IsBlank(ls[j]) \/ is_indented(ls[j], 1, FALSE))) - 1
    ELSE Len(ls)

\* BaseWriter._reformat_lines(lines, indent, hanging)
reformat_lines(cfg, ls, indent, hanging) ==
    LET replace_to == ReplaceTo(cfg, ls)
        IndentAt(i) == IF i > 1 /\ hanging THEN indent + 1 ELSE indent
        kept == [k \in 1..(Len(ls) - replace_to) |->
                    LET i == replace_to + k
                    IN  IF IsBlank(ls[i]) THEN Blank
                        ELSE [ls[i] EXCEPT
                                 !.indent = @ + IndentAt(i) * cfg.standard_indent]]
        realigned == IF replace_to = 0 THEN <<>>
                     ELSE << [JoinLines(SubSeq(ls, 1, replace_to)) EXCEPT
                                 !.indent = indent * cfg.standard_indent] >>
    IN  realigned \o kept

\* BaseWriter._is_longer_than_max(line, indent)
is_longer_than_max(w, line, indent) ==
    indent * w.config.standard_indent + Len(Text(line))
        > w.config.max_line_length - w.section_indent

\* BaseWriter.write_desc(desc, header, indent, hanging); header is None or
\* a line.
write_desc(w, o, desc, header, indent, hanging) ==
    IF header = None
    THEN write_lines(w, o, reformat_lines(w.config, desc, indent, hanging), 0)
    ELSE IF is_longer_than_max(w, Val(header), indent)
    THEN write_lines(w, write_line(w, o, Val(header), indent, FALSE, FALSE),
                     reformat_lines(w.config, desc,
                                    IF hanging THEN indent + 1 ELSE indent, FALSE),
                     0)
    ELSE write_lines(w, o, reformat_lines(w.config, <<Val(header)>> \o desc,
                                          indent, hanging), 0)

\* RestWriter / EpytextWriter: _var_token, _field_token, _directive_token
\* and _attr_type.
var_token(style, field, name) ==
    TextLine(0, IF style = "epytext" THEN "@" ELSE ":", <<field, name>>, TRUE, "")

field_token(style, field) ==
    TextLine(0, IF style = "epytext" THEN "@" ELSE ":", <<field>>, TRUE, "")

directive_token(style, kind) ==
    TextLine(0, IF style = "epytext" THEN "@" ELSE "..", <<kind>>, TRUE, "")

attr_type(style) == IF style = "epytext" THEN "type" ELSE "vartype"

\* RestWriter.write_var(var, field, type_field, use_optional); the types of
\* the model hold no back ticks.
write_var(w, o, var, field, type_field, use_optional) ==
    LET optional == IF use_optional /\ w.config.use_optional /\ var.optional
                    THEN "optional" ELSE ""
        kind0 == IF w.config.use_types THEN var.kind ELSE ""
        kind == IF kind0 # "" /\ optional # "" THEN kind0 \o ", " \o optional
                ELSE IF kind0 # "" THEN kind0 ELSE optional
        o1 == write_desc(w, o, var.desc,
                         Some(var_token(w.style, field, Str(var.name))), 0, TRUE)
    IN  IF kind # ""
        THEN write_desc(w, o1, <<Plain(0, kind)>>,
                        Some(var_token(w.style, type_field, Str(var.name))), 0, TRUE)
        ELSE o1

RECURSIVE write_vars(_, _, _, _, _, _)
\* for var in ...: self.write_var(var, field, ...)
write_vars(w, o, fields, field, type_field, use_optional) ==
    IF fields = <<>> THEN o
    ELSE write_vars(w, write_var(w, o, Head(fields), field, type_field, use_optional),
                    Tail(fields), field, type_field, use_optional)

\* RestWriter.write_args(element)
write_args(w, o) ==
    LET IsKeyword(f) == w.config.separate_keywords /\ f.optional
        args == SelectSeq(w.doc.arg_fields, LAMBDA f : ~IsKeyword(f))
        kwds == SelectSeq(w.doc.arg_fields, LAMBDA f : IsKeyword(f))
    IN  write_vars(w, write_vars(w, o, args, "param", "type", TRUE),
                   kwds, "keyword", "type", FALSE)

\* RestWriter.write_attributes(element)
write_attributes(w, o) ==
    write_vars(w, o, w.doc.attribute_fields, "var", attr_type(w.style), FALSE)

RECURSIVE write_raise_fields(_, _, _)
\* for var in self.doc.raise_fields: the header and the description
write_raise_fields(w, o, fields) ==
    IF fields = <<>> THEN o
    ELSE write_raise_fields(w,
             write_desc(w, o, Head(fields).desc,
                        Some(var_token(w.style, "raises", Head(fields).kind)), 0, TRUE),
             Tail(fields))

\* RestWriter.write_raises(element)
write_raises(w, o) == write_raise_fields(w, o, w.doc.raise_fields)

\* A write_returns that writes the returns header for every return field.
write_returns_always(w, o) ==
    LET ret_field == Val(w.doc.return_field)
        o1 == write_desc(w, o, ret_field.desc,
                         Some(field_token(w.style, "returns")), 0, TRUE)
    IN  IF ret_field.kind # ""
        THEN write_desc(w, o1, <<Plain(0, ret_field.kind)>>,
                        Some(field_token(w.style, "rtype")), 0, TRUE)
        ELSE o1

\* RestWriter.write_returns(element)
write_returns(w, o) ==
    LET ret_field == Val(w.doc.return_field)
        o1 == IF ret_field.desc # <<>>
              THEN write_desc(w, o, ret_field.desc,
                              Some(field_token(w.style, "returns")), 0, TRUE)
              ELSE o
    IN  IF ret_field.kind # ""
        THEN write_desc(w, o1, <<Plain(0, ret_field.kind)>>,
                        Some(field_token(w.style, "rtype")), 0, TRUE)
        ELSE o1

\* RestWriter.write_directive(element)
write_directive(w, o, element) ==
    IF element[2] = <<>> THEN o
    ELSE write_lines(w, write_desc(w, o, <<element[2][1]>>,
                                   Some(directive_token(w.style, element[1])), 0, TRUE),
                     Tail(element[2]), 1)

\* The handler BaseWriter.write calls for one element.
write_element(w, o, element) ==
    LET handler == Dispatch(element)
    IN  CASE handler = "write_quotes" -> write_quotes(w, o, element[1], element[2])
          [] handler = "write_raw" -> write_raw(w, o, element[2])
          [] handler = "write_directive" -> write_directive(w, o, element)
          [] handler = "write_args" -> write_args(w, o)
          [] handler = "write_attributes" -> write_attributes(w, o)
          [] handler = "write_raises" -> write_raises(w, o)
          [] handler = "write_returns" -> write_returns(w, o)
          [] OTHER -> [o EXCEPT !.error = "InvalidDocstringElementError"]

\* What the caller of write() gets: the exception, or self.output.
written(o) == [error |-> o.error, output |-> IF o.error = "" THEN o.output ELSE <<>>]

\* One pass of the loop of write(), for the output o so far.
write_next(w, o, i) ==
    IF o.error # "" THEN o ELSE write_element(w, o, w.doc.elements[i])

RECURSIVE write_elements(_, _, _)
\* for i, element in enumerate(self.doc.elements)
write_elements(w, o, i) ==
    IF i > Len(w.doc.elements) THEN o
    ELSE write_elements(w, write_next(w, o, i), i + 1)

\* doc_writer(doc, indent, config).write(): the error raised, or the
\* output lines.
write(style, d, section_indent, cfg) ==
    LET w == NewWriter(style, d, section_indent, cfg)
    IN  written(write_elements(w, NewOutput(w), 1))

(***************************************************************************)
(* core.py: one capture through parser and writer, and the writer's output *)
(* through the parser and the writer of the output style again.            *)
(***************************************************************************)
MaxRenderLines == 4

RenderLines ==
    {Plain(0, "Desc."), Blank,
     TextLine(0, ":", <<"param", "arg1">>, TRUE, "d1"),
     TextLine(0, ":", <<"rtype">>, TRUE, "int"),
     TextLine(0, ":", <<"vartype", "arg1">>, TRUE, "str")}

RenderCaptures ==
    {Enclose(ls, FALSE) :
        ls \in UNION {[1..n -> RenderLines] : n \in 1..MaxRenderLines}}

\* The output styles that have a writer here and a parser in _PARSERS.
RenderStyles == {"rest", "epytext"}

NoOutput == [error |-> "", output |-> <<>>]

InitRender ==
    /\ \E ls \in RenderCaptures, style \in RenderStyles, realign \in BOOLEAN,
          markup \in MarkupArgs :
          pipeline = [lines |-> ls,
                      output_style |-> style,
                      config |-> OutputConfig(realign, markup),
                      raw_indent |-> 0,
                      doc |-> NewDocstring,
                      new_doc |-> NoOutput,
                      doc2 |-> NewDocstring,
                      new_doc2 |-> NoOutput,
                      pc |-> "start"]
    /\ InitOthersOfRender

\* doc_parser = RestParser(raw_doc.lines, keywords); doc_parser.parse()
RenderParse ==
    /\ pipeline.pc = "start"
    /\ \E p \in {parse(NewParser("RestParser", pipeline.lines, {}))} :
          pipeline' = [pipeline EXCEPT !.doc = p.doc,
                                       !.raw_indent = p.raw_indent,
                                       !.pc = "parsed"]
    /\ UNCHANGED othersOfRender

\* new_doc = doc_writer(doc_parser.doc, doc_parser.raw_indent, config).write()
RenderWrite ==
    /\ pipeline.pc = "parsed"
    /\ \E out \in {write(pipeline.output_style, pipeline.doc,
                           pipeline.raw_indent, pipeline.config)} :
          pipeline' = [pipeline EXCEPT
                          !.new_doc = out,
                          !.pc = IF out.error = "" THEN "written" ELSE "raised"]
    /\ UNCHANGED othersOfRender

\* The output parsed with the parser of the output style.
RenderReparse ==
    /\ pipeline.pc = "written"
    /\ \E p \in {parse(NewParser(StyleParser(pipeline.output_style),
                                   pipeline.new_doc.output, {}))} :
          pipeline' = [pipeline EXCEPT !.doc2 = p.doc, !.pc = "reparsed"]
    /\ UNCHANGED othersOfRender

\* The Docstring of the output written in the output style again.
RenderRewrite ==
    /\ pipeline.pc = "reparsed"
    /\ pipeline' = [pipeline EXCEPT
                       !.new_doc2 = write(pipeline.output_style, pipeline.doc2,
                                          pipeline.raw_indent, pipeline.config),
                       !.pc = "rewritten"]
    /\ UNCHANGED othersOfRender

NextRender ==
    \/ RenderParse
    \/ RenderWrite
    \/ RenderReparse
    \/ RenderRewrite

SpecRender == InitRender /\ [][NextRender]_vars

(***************************************************************************)
(* Properties of the writers                                               *)
(***************************************************************************)
\* The first pass has ended: write() returned or the writer raised.
Rendered == pipeline.pc \in {"written", "raised", "reparsed", "rewritten"}

\* C18: round-trip idempotence: with realign disabled, the output of a
\* writer, parsed with the parser of the same style and written again in
\* that style, is the same output.
C18_RoundTripIdempotent ==
    (pipeline.pc = "rewritten" /\ ~pipeline.config.realign)
        => pipeline.new_doc2 = pipeline.new_doc

\* The capture of the end-to-end scenario.
Scenario ==
    Enclose(<<Plain(0, "Desc."), Blank,
              TextLine(0, ":", <<"param", "arg1">>, TRUE, "d1"),
              TextLine(0, ":", <<"rtype">>, TRUE, "int")>>, FALSE)

OpeningLine == [Plain(0, "Desc.") EXCEPT !.open = Quotes]

ClosingLine == [Blank EXCEPT !.close = Quotes]

InScenario ==
    /\ pipeline.lines = Scenario
    /\ pipeline.output_style = "epytext"
    /\ Rendered

MaxDedentLen == 3
MaxDedentLines == 2

\* A line is the sequence of its characters: blanks and one letter.
DedentChars == {" ", "a"}

DedentStrs == UNION {[1..n -> DedentChars] : n \in 0..MaxDedentLen}

DedentLists == UNION {[1..n -> DedentStrs] : n \in 0..MaxDedentLines}

\* line_utils.get_indent(line): the index of the first character that is
\* not a blank, len(line) if there is none.
get_indent_str(line) ==
    IF \E i \in 1..Len(line) : line[i] # " "
    THEN (CHOOSE i \in 1..Len(line) :
             /\ line[i] # " "
             /\ \A j \in 1..(i - 1) : line[j] = " ") - 1
    ELSE Len(line)

\* line_utils.dedent(line, indent): line[indent:]
dedent_str(line, indent) == SubSeq(line, indent + 1, Len(line))

\* min() over the indents of the lines that are not the empty str
min_indent(ls) ==
    LET indents == {get_indent_str(ls[i]) : i \in {j \in 1..Len(ls) : ls[j] # <<>>}}
    IN  CHOOSE m \in indents : \A n \in indents : m <= n

\* line_utils.dedent_by_minimum(lines): min() of an empty sequence raises
\* ValueError.
dedent_by_minimum_str(ls) ==
    IF ls = <<>> THEN [error |-> "", lines |-> <<>>]
    ELSE IF \A i \in 1..Len(ls) : ls[i] = <<>>
    THEN [error |-> "ValueError", lines |-> <<>>]
    ELSE [error |-> "",
          lines |-> [i \in 1..Len(ls) |-> dedent_str(ls[i], min_indent(ls))]]

InitDedent ==
    /\ \E ls \in DedentLists :
          dedenting = [lines |-> ls, once |-> <<>>, twice |-> <<>>, pc |-> "start"]
    /\ InitOthersOfDedent

\* new_lines = line_utils.dedent_by_minimum(lines)
DedentLines ==
    /\ dedenting.pc = "start"
    /\ \E r \in {dedent_by_minimum_str(dedenting.lines)} :
          dedenting' = [dedenting EXCEPT
                           !.once = r.lines,
                           !.pc = IF r.error = "" THEN "once" ELSE "raised"]
    /\ UNCHANGED othersOfDedent

\* line_utils.dedent_by_minimum(new_lines)
DedentAgain ==
    /\ dedenting.pc = "once"
    /\ \E r \in {dedent_by_minimum_str(dedenting.once)} :
          dedenting' = [dedenting EXCEPT
                           !.twice = r.lines,
                           !.pc = IF r.error = "" THEN "twice" ELSE "raised"]
    /\ UNCHANGED othersOfDedent

NextDedent ==
    \/ DedentLines
    \/ DedentAgain

SpecDedent == InitDedent /\ [][NextDedent]_vars

\* C21: dedent_by_minimum is idempotent: the lines it returns, dedented
\* again, are the same lines, for every list of lines, those with blank or
\* whitespace-only lines included.
C21_DedentIdempotent ==
    dedenting.pc = "twice" => dedenting.twice = dedenting.once

(***************************************************************************)
(* parse() on indented docstrings: lines at, under and over the token      *)
(* indent, blank lines, and text after the closing quotes                  *)
(***************************************************************************)
MaxBodyLines == 3

\* The indentation of the docstring in its file.
DocIndent == 2

\* The first line of the capture: text after the opening quotes, or the
\* quotes alone.
Openings == {Plain(DocIndent, "Desc."), [Blank EXCEPT !.indent = DocIndent]}

\* Lines at the indentation of the docstring, under it and over it.
IndentedLines(cls) ==
    {Blank,
     Plain(1, "under"),
     TextLine(0, "..", <<"note">>, TRUE, "flush"),
     TextLine(DocIndent, "..", <<"note">>, TRUE, "n"),
     TextLine(DocIndent + 2, "", <<"k">>, TRUE, "int")}
    \cup (IF cls = "EpytextParser"
          THEN {TextLine(DocIndent, "@", <<"param", "a">>, TRUE, "d")}
          ELSE IF cls = "RestParser"
          THEN {TextLine(DocIndent, ":", <<"keywords">>, TRUE, "")}
          ELSE {})

\* How a capture ends: the closing quotes on the last line of text or on a
\* line of their own, the text after them, and the lines after their line.
Closings ==
    {[one_line |-> FALSE, after |-> "", later |-> <<>>],
     [one_line |-> FALSE, after |-> "# c", later |-> <<Plain(0, "later")>>],
     [one_line |-> TRUE, after |-> "", later |-> <<Plain(0, "later")>>]}

\* The capture that opens with the line opening, holds the lines ls and
\* ends as closing says.
Capture(opening, ls, closing) ==
    LET enclosed == Enclose(<<opening>> \o ls, closing.one_line)
        n == Len(enclosed)
    IN  [enclosed EXCEPT ![n].after = closing.after,
                         ![n].indent = IF closing.one_line THEN @ ELSE DocIndent]
        \o closing.later

IndentedCaptures(cls) ==
    {Capture(opening, ls, closing) :
        opening \in Openings,
        ls \in UNION {[1..n -> IndentedLines(cls)] : n \in 0..MaxBodyLines},
        closing \in Closings}

InitIndented ==
    /\ \E cls \in ParserClasses :
         \E ls \in IndentedCaptures(cls) :
            /\ parsing = NewParser(cls, ls, {})
            /\ signature = [keywords |-> <<>>, kwarg |-> None, lines |-> ls]
    /\ InitOthersOfParse

SpecIndented == InitIndented /\ [][NextParse]_vars

(***************************************************************************)
(* Properties of the token loop and of parse_body                          *)
(***************************************************************************)
\* The line under the cursor as the capture has it.
RawLine == parsing.lines[parsing.line_num + 1]

\* The first line with text, the line that gives the token indent.
FirstText ==
    CHOOSE i \in 1..Len(parsing.lines) :
        /\ ~IsBlank(parsing.lines[i])
        /\ \A j \in 1..(i - 1) : IsBlank(parsing.lines[j])

\* The step appends the raw element of the current line and takes the line.
BecomesRaw ==
    /\ parsing'.doc =
          [parsing.doc EXCEPT !.elements = Append(@, <<"raw", <<CurrentLine>> >>)]
    /\ parsing'.line_num = parsing.line_num + 1
    /\ parsing'.pc = "tokens"

\* C23: in the token loop the token indent is the indentation of the first
\* line with text, and a line that is blank or whose indentation is not
\* exactly the token indent becomes a raw element: the step appends
\* ('raw', line), moves the cursor by one line and leaves the field tables
\* alone.
C23_OffIndentBecomesRaw ==
    /\ []((parsing.pc = "tokens" /\ \E i \in 1..Len(parsing.lines) :
                                        ~IsBlank(parsing.lines[i]))
            => parsing.indent = parsing.lines[FirstText].indent)
    /\ [][(AtLine /\ (IsBlank(RawLine) \/ RawLine.indent # parsing.indent))
            => BecomesRaw]_vars

\* C23 witness: the parse is over and a line under the token indent, a
\* token flush with the margin and a line over the token indent are raw
\* elements.
C23_Witness ==
    /\ parsing.pc = "done"
    /\ parsing.indent = DocIndent
    /\ \E i, j, k \in 1..Len(parsing.doc.elements) :
          /\ parsing.doc.elements[i] = <<"raw", <<Plain(1, "under")>> >>
          /\ parsing.doc.elements[j] =
                <<"raw", <<TextLine(0, "..", <<"note">>, TRUE, "flush")>> >>
          /\ parsing.doc.elements[k] =
                <<"raw", <<TextLine(2, "", <<"k">>, TRUE, "int")>> >>

\* The step parses the token of the current line, a group header excepted.
TokenStep ==
    /\ AtLine
    /\ ~IsBlank(RawLine) /\ RawLine.indent = parsing.indent
    /\ parsing'.line_num > parsing.line_num
    /\ ~BecomesRaw
    /\ Lower(Group(CurrentLine, 1)) \notin Rest_group_fields

\* C24: a line with text goes into the body of a token only if it is
\* indented at least one column deeper than the token indent: every line
\* the step of a token takes after the token's own line is blank or
\* deeper than the token indent.
C24_BodyLinesAreDeeper ==
    [][TokenStep =>
          \A i \in (parsing.line_num + 2)..parsing'.line_num :
              \/ IsBlank(parsing.lines[i])
              \/ parsing.lines[i].indent >= parsing.indent + 1]_vars

\* C25: the blank lines after the last line with text of a body are not
\* consumed: when the step of a token has taken lines after the token's
\* own line, the last line it has taken is not blank.
C25_TrailingBlanksLeft ==
    [][(/\ AtLine
        /\ ~IsBlank(RawLine) /\ RawLine.indent = parsing.indent
        /\ parsing'.line_num > parsing.line_num + 1)
          => ~IsBlank(parsing.lines[parsing'.line_num])]_vars

\* The lines of the capture after the line of its closing quotes, led by
\* the text after the quotes if there is any.
AfterClosing ==
    LET ls == signature.lines
        i == CHOOSE k \in 1..Len(ls) :
                 ls[k].close # "" /\ \A j \in (k + 1)..Len(ls) : ls[j].close = ""
    IN  (IF ls[i].after = "" THEN <<>> ELSE <<Plain(0, ls[i].after)>>)
        \o [k \in 1..(Len(ls) - i) |-> ls[i + k]]

\* C26: after parse() the elements start with start_quote and hold exactly
\* one end_quote; it is the last element when nothing follows the closing
\* quotes, and otherwise one raw element follows it, holding the text after
\* the quotes and then the later lines of the capture.
C26_QuotesFrameElements ==
    parsing.pc = "done" =>
        LET els == parsing.doc.elements
            n == Len(els)
            last == IF AfterClosing = <<>> THEN n ELSE n - 1
        IN  /\ els[1] = <<"start_quote", Quotes>>
            /\ Cardinality({i \in 1..n : els[i][1] = "end_quote"}) = 1
            /\ Cardinality({i \in 1..n : els[i][1] = "start_quote"}) = 1
            /\ last > 1
            /\ els[last] = <<"end_quote", Quotes>>
            /\ AfterClosing # <<>> => els[n] = <<"raw", AfterClosing>>

\* C26 witness: a capture with text after the closing quotes and a later
\* line has been parsed.
C26_Witness ==
    /\ parsing.pc = "done"
    /\ parsing.doc.elements[Len(parsing.doc.elements)] =
          <<"raw", <<Plain(0, "# c"), Plain(0, "later")>> >>
    /\ Len(parsing.doc.elements) > 3

\* The parser standing at line n of its lines.
ParserAt(n) == [parsing EXCEPT !.line_num = n]

\* C29: parse() terminates: every pass of the token loop leaves the cursor
\* strictly beyond the line it started on, and so does every sub-field of a
\* group; the cursor never passes the end of the lines, and the loop ends
\* exactly when no line is left.
C29_TokenLoopAdvances ==
    /\ [](parsing.pc \in {"leading", "tokens", "done"}
            => /\ parsing.line_num <= Len(parsing.lines)
               /\ parsing.pc = "done" => parsing.line_num = Len(parsing.lines)
               /\ \A n \in 0..(Len(parsing.lines) - 1), g \in Rest_group_fields :
                     in_group(ParserAt(n))
                        => /\ group_item(ParserAt(n), g).line_num > n
                           /\ group_item(ParserAt(n), g).line_num <= Len(parsing.lines))
    /\ [][/\ AtLine => /\ parsing'.line_num > parsing.line_num
                       /\ parsing'.pc = "tokens"
          /\ (parsing.pc = "tokens" /\ ~AtLine) => parsing'.pc = "done"]_vars

\* C29 witness: the parse is over after a directive and a group with a
\* sub-field, and every line has been taken.
C29_Witness ==
    /\ parsing.pc = "done"
    /\ parsing.cls = "RestParser"
    /\ Len(parsing.doc.arg_fields) = 1
    /\ parsing.line_num = Len(parsing.lines)
    /\ \E i \in 1..(Len(parsing.doc.elements) - 1) :
          /\ parsing.doc.elements[i][1] = "note"
          /\ parsing.doc.elements[i + 1] = <<"args">>

(***************************************************************************)
(* writer/base.py: write() called twice on one writer                      *)
(***************************************************************************)
\* BaseWriter.write() on a writer whose attributes are o: self.output is
\* set to [] and the elements are written; self._elements_written is
\* left as it is.
write_on(w, o) == write_elements(w, [o EXCEPT !.output = <<>>], 1)

InitRepeat ==
    /\ \E ls \in RenderCaptures, style \in RenderStyles, realign \in BOOLEAN,
          markup \in MarkupArgs :
          pipeline = [lines |-> ls,
                      output_style |-> style,
                      config |-> OutputConfig(realign, markup),
                      raw_indent |-> 0,
                      doc |-> NewDocstring,
                      writer |-> {},
                      attributes |-> {},
                      first |-> NoOutput,
                      second |-> NoOutput,
                      pc |-> "start"]
    /\ InitOthersOfRender

\* writer = doc_writer(doc, raw_indent, config); first = writer.write()
RepeatWrite ==
    /\ pipeline.pc = "parsed"
    /\ \E w \in {NewWriter(pipeline.output_style, pipeline.doc,
                           pipeline.raw_indent, pipeline.config)} :
          \E o \in {write_on(w, NewOutput(w))} :
             pipeline' = [pipeline EXCEPT
                             !.writer = w,
                             !.attributes = o,
                             !.first = written(o),
                             !.pc = IF o.error = "" THEN "once" ELSE "raised"]
    /\ UNCHANGED othersOfRender

\* second = writer.write()
RepeatWriteAgain ==
    /\ pipeline.pc = "once"
    /\ \E o \in {write_on(pipeline.writer, pipeline.attributes)} :
          pipeline' = [pipeline EXCEPT !.attributes = o,
                                       !.second = written(o),
                                       !.pc = "twice"]
    /\ UNCHANGED othersOfRender

NextRepeat ==
    \/ RenderParse
    \/ RepeatWrite
    \/ RepeatWriteAgain

SpecRepeat == InitRepeat /\ [][NextRepeat]_vars

\* C30: write() is repeatable: the second call on the same writer returns
\* lines equal to the lines of the first call.
C30_WriteRepeatable ==
    pipeline.pc = "twice" => pipeline.second = pipeline.first

(***************************************************************************)
(* core.py: convert() and the pool of workers.  A file is known by its     *)
(* place in src_files; what convert_file does with it is given: it         *)
(* returns, or it raises an Exception.  With at most 4 * processes files   *)
(* map_async makes one task of each file.                                  *)
(***************************************************************************)
MaxFiles == 3
MaxThreads == 2

\* What convert_file does with a file.
FileOutcomes == {"converts", "raises"}

\* What convert_file(filename, config, in_place) returns for file f: None
\* when it writes in place, and else the lines of the diff of the file.
convert_file_result(f, inplace) ==
    IF inplace THEN None ELSE Some(<<"diff", f>>)

\* A call that lets the exception of convert_file out.
ConvertDocstring_call_uncaught(f, outcome, inplace) ==
    IF outcome = "raises"
    THEN [state |-> "raised", value |-> None, logged |-> FALSE]
    ELSE [state |-> "returned", value |-> convert_file_result(f, inplace),
          logged |-> FALSE]

\* _ConvertDocstring.__call__(filename): the result of convert_file, or
\* the exception logged and None returned.
ConvertDocstring_call(f, outcome, inplace) ==
    IF outcome = "raises"
    THEN [state |-> "returned", value |-> None, logged |-> TRUE]
    ELSE [state |-> "returned", value |-> convert_file_result(f, inplace),
          logged |-> FALSE]

NoResult == [state |-> "pending", value |-> None, logged |-> FALSE]

\* convert() up to the pool: src_files found, threads and in_place given.
InitPool ==
    /\ \E n \in 0..MaxFiles, threads \in 1..MaxThreads, inplace \in BOOLEAN :
          \E outcomes \in [1..n -> FileOutcomes] :
             pool = [src_files |-> outcomes,
                     in_place |-> inplace,
                     queue |-> <<>>,
                     workers |-> [k \in 1..threads |-> 0],
                     calls |-> [f \in 1..n |-> 0],
                     async |-> [f \in 1..n |-> NoResult],
                     results |-> None,
                     raised |-> FALSE,
                     interrupted |-> FALSE,
                     pc |-> "start"]
    /\ InitOthersOfPool

\* pool.map_async(converter, src_files): one task for each file, in the
\* order of src_files.
MapAsync ==
    /\ pool.pc = "start"
    /\ pool' = [pool EXCEPT !.queue = [i \in 1..Len(pool.src_files) |-> i],
                            !.pc = "waiting"]
    /\ UNCHANGED othersOfPool

\* A worker without a task takes the next task and calls the converter.
WorkerTakes ==
    /\ pool.pc = "waiting"
    /\ pool.queue # <<>>
    /\ \E k \in DOMAIN pool.workers :
          /\ pool.workers[k] = 0
          /\ pool' = [pool EXCEPT !.workers[k] = Head(pool.queue),
                                  !.queue = Tail(@),
                                  !.calls[Head(pool.queue)] = @ + 1]
    /\ UNCHANGED othersOfPool

\* The call of the converter ends and the worker hands its result over.
WorkerEnds ==
    /\ pool.pc = "waiting"
    /\ \E k \in DOMAIN pool.workers :
          /\ pool.workers[k] # 0
          /\ \E f \in {pool.workers[k]} :
                pool' = [pool EXCEPT
                            !.workers[k] = 0,
                            !.async[f] = ConvertDocstring_call(
                                            f, pool.src_files[f], pool.in_place)]
    /\ UNCHANGED othersOfPool

\* .get(_TIMEOUT) once every task has ended: the results in the order of
\* the files, or the exception of a task raised again; pool.close().
GetResults ==
    /\ pool.pc = "waiting"
    /\ \A f \in 1..Len(pool.src_files) : pool.async[f].state # "pending"
    /\ IF \E f \in 1..Len(pool.src_files) : pool.async[f].state = "raised"
       THEN pool' = [pool EXCEPT !.raised = TRUE, !.pc = "raised"]
       ELSE pool' = [pool EXCEPT
                        !.results = Some([f \in 1..Len(pool.src_files) |->
                                             pool.async[f].value]),
                        !.pc = "returned"]
    /\ UNCHANGED othersOfPool

\* except KeyboardInterrupt: pool.terminate(); convert() returns None.
Interrupted ==
    /\ pool.pc = "waiting"
    /\ pool' = [pool EXCEPT !.interrupted = TRUE,
                            !.queue = <<>>,
                            !.workers = [k \in DOMAIN pool.workers |-> 0],
                            !.pc = "returned"]
    /\ UNCHANGED othersOfPool

NextPool ==
    \/ MapAsync
    \/ WorkerTakes
    \/ WorkerEnds
    \/ GetResults
    \/ Interrupted

SpecPool == InitPool /\ [][NextPool]_vars

args_header(style) == IF style = "numpy" THEN "Parameters" ELSE "Args"

keywords_header(style) ==
    IF style = "numpy" THEN "Keyword Arguments" ELSE "Keyword Args"

\* _directive_title of GoogleWriter and of NumpyWriter
directive_title(style, kind) ==
    CASE kind = "example" -> IF style = "numpy" THEN "Examples" ELSE "Example"
      [] kind = "note" -> IF style = "numpy" THEN "Notes" ELSE "Note"
      [] kind = "seealso" -> "See Also"
      [] kind = "warning" -> IF style = "numpy" THEN "Warnings" ELSE "Warning"
      [] kind = "reference" -> "References"
      [] kind = "todo" -> "Todo"

RECURSIVE Dashes(_)
\* "-" * n
Dashes(n) == IF n = 0 THEN "" ELSE "-" \o Dashes(n - 1)

\* is_first_section of write_section_header: the output is the line of the
\* opening quotes and nothing was appended to it.
is_first_section(o) ==
    /\ Len(o.output) = 1
    /\ o.output[1].open # "" /\ o.output[1].close = ""
    /\ o.output[1].words = <<>> /\ o.output[1].tail = ""

\* GoogleWriter.write_section_header(header) and
\* NumpyWriter.write_section_header(header)
write_section_header(w, o, header) ==
    LET o1 == IF ~is_first_section(o) /\ ~IsBlank(o.output[Len(o.output)])
              THEN write_line(w, o, Blank, 0, FALSE, FALSE)
              ELSE o
    IN  IF w.style = "numpy"
        THEN write_line(w, write_line(w, o1, Plain(0, header), 0, FALSE, FALSE),
                        Plain(0, Dashes(Len(header))), 0, FALSE, FALSE)
        ELSE write_line(w, o1, TextLine(0, "", <<header>>, TRUE, ""),
                        0, FALSE, FALSE)

\* NumpyWriter.get_previous_element() while element number current (from
\* 0) is written: the nearest element before it that is not a raw element
\* of blank lines; the first element when there is no such element, and
\* None for the first element.
get_previous_element(els, current) ==
    LET Stops(i) == els[i][1] # "raw"
                        \/ \E k \in 1..Len(els[i][2]) : ~IsBlank(els[i][2][k])
        stops == {i \in 1..current : Stops(i)}
    IN  IF current = 0 THEN None
        ELSE IF stops = {} THEN Some(els[1])
        ELSE Some(els[CHOOSE i \in stops : \A j \in stops : j <= i])

\* A write_raw that writes the two blank lines before every raw element
\* with text.
Numpy_write_raw_always(w, o, ls, current) ==
    write_raw(w, write_line(w, write_line(w, o, Blank, 0, FALSE, FALSE),
                            Blank, 0, FALSE, TRUE), ls)

\* NumpyWriter.write_raw(lines) while element number current is written
Numpy_write_raw(w, o, ls, current) ==
    LET not_space == \E k \in 1..Len(ls) : ~IsBlank(ls[k])
        previous_element == get_previous_element(w.doc.elements, current)
        after_section == /\ not_space
                         /\ previous_element # None
                         /\ Val(previous_element)[1] \in DOMAIN write_map
    IN  IF after_section
        THEN write_raw(w, write_line(w, write_line(w, o, Blank, 0, FALSE, FALSE),
                                     Blank, 0, FALSE, TRUE), ls)
        ELSE write_raw(w, o, ls)

\* GoogleWriter.write_directive(element) and
\* NumpyWriter.write_directive(element)
Google_write_directive(w, o, element) ==
    write_lines(w, write_section_header(w, o, directive_title(w.style, element[1])),
                element[2], IF w.style = "numpy" THEN 0 ELSE 1)

\* The words of kind and optional after a name: " ({0})" of ", ".join in
\* google style and " : {0}" in numpy style.
KindWords(style, kind, optional) ==
    IF style = "numpy"
    THEN IF kind # "" /\ optional THEN <<":", kind \o ",", "optional">>
         ELSE IF kind # "" THEN <<":", kind>>
         ELSE IF optional THEN <<":", "optional">>
         ELSE <<>>
    ELSE IF kind # "" /\ optional THEN <<"(" \o kind \o ",", "optional)">>
         ELSE IF kind # "" THEN <<"(" \o kind \o ")">>
         ELSE IF optional THEN <<"(optional)">>
         ELSE <<>>

\* A write_var that marks every optional field.
Google_write_var_marked(w, o, var, use_optional) ==
    LET optional == w.config.use_optional /\ var.optional
        kind == IF w.config.use_types THEN var.kind ELSE ""
        words == <<Str(var.name)>> \o KindWords(w.style, kind, optional)
    IN  IF w.style = "numpy"
        THEN LET o1 == write_line(w, o, TextLine(0, "", words, FALSE, ""),
                                  0, FALSE, FALSE)
             IN  IF var.desc # <<>> THEN write_desc(w, o1, var.desc, None, 1, FALSE)
                 ELSE o1
        ELSE IF var.desc # <<>>
        THEN write_desc(w, o, var.desc, Some(TextLine(0, "", words, TRUE, "")),
                        1, TRUE)
        ELSE write_line(w, o, TextLine(0, "", words, FALSE, ""), 1, FALSE, FALSE)

\* GoogleWriter.write_var(var, use_optional) and
\* NumpyWriter.write_var(var, use_optional); the types hold no back ticks.
Google_write_var(w, o, var, use_optional) ==
    LET optional == use_optional /\ w.config.use_optional /\ var.optional
        kind == IF w.config.use_types THEN var.kind ELSE ""
        words == <<Str(var.name)>> \o KindWords(w.style, kind, optional)
    IN  IF w.style = "numpy"
        THEN LET o1 == write_line(w, o, TextLine(0, "", words, FALSE, ""),
                                  0, FALSE, FALSE)
             IN  IF var.desc # <<>> THEN write_desc(w, o1, var.desc, None, 1, FALSE)
                 ELSE o1
        ELSE IF var.desc # <<>>
        THEN write_desc(w, o, var.desc, Some(TextLine(0, "", words, TRUE, "")),
                        1, TRUE)
        ELSE write_line(w, o, TextLine(0, "", words, FALSE, ""), 1, FALSE, FALSE)

RECURSIVE Google_write_vars(_, _, _, _)
\* for arg in ...: self.write_var(arg, use_optional)
Google_write_vars(w, o, fields, use_optional) ==
    IF fields = <<>> THEN o
    ELSE Google_write_vars(w, Google_write_var(w, o, Head(fields), use_optional),
                           Tail(fields), use_optional)

\* A section of fields: the header and the fields, or nothing for no field.
Google_write_group(w, o, header, fields, use_optional) ==
    IF fields = <<>> THEN o
    ELSE Google_write_vars(w, write_section_header(w, o, header), fields,
                           use_optional)

\* GoogleWriter.write_args(element)
Google_write_args(w, o) ==
    LET IsKeyword(f) == w.config.separate_keywords /\ f.optional
        args == SelectSeq(w.doc.arg_fields, LAMBDA f : ~IsKeyword(f))
        keywords == SelectSeq(w.doc.arg_fields, LAMBDA f : IsKeyword(f))
    IN  Google_write_group(w,
            Google_write_group(w, o, args_header(w.style), args, TRUE),
            keywords_header(w.style), keywords, FALSE)

\* GoogleWriter.write_attributes(element)
Google_write_attributes(w, o) ==
    Google_write_vars(w, write_section_header(w, o, "Attributes"),
                      w.doc.attribute_fields, FALSE)

\* One field of a raises section in google style and in numpy style.
Google_write_raise(w, o, var) ==
    IF w.style = "numpy"
    THEN LET o1 == IF var.kind # ""
                   THEN write_line(w, o, Plain(0, var.kind), 0, FALSE, FALSE)
                   ELSE o
         IN  IF var.desc # <<>> THEN write_desc(w, o1, var.desc, None, 1, FALSE)
             ELSE o1
    ELSE IF var.desc # <<>>
    THEN write_desc(w, o, var.desc,
                    IF var.kind # ""
                    THEN Some(TextLine(0, "", <<var.kind>>, TRUE, "")) ELSE None,
                    1, TRUE)
    ELSE write_line(w, o, IF var.kind = "" THEN Blank ELSE Plain(0, var.kind),
                    1, FALSE, FALSE)

RECURSIVE Google_write_raise_fields(_, _, _)
\* for var in self.doc.raise_fields
Google_write_raise_fields(w, o, fields) ==
    IF fields = <<>> THEN o
    ELSE Google_write_raise_fields(w, Google_write_raise(w, o, Head(fields)),
                                   Tail(fields))

\* GoogleWriter.write_raises(element) and NumpyWriter.write_raises(element)
Google_write_raises(w, o) ==
    Google_write_raise_fields(w, write_section_header(w, o, "Raises"),
                              w.doc.raise_fields)

\* GoogleWriter.write_returns(element) and
\* NumpyWriter.write_returns(element)
Google_write_returns(w, o) ==
    LET ret_field == Val(w.doc.return_field)
        o1 == write_section_header(w, o, "Returns")
    IN  IF w.style = "numpy"
        THEN LET o2 == write_line(w, o1,
                                  Plain(0, IF ret_field.kind = "" THEN "unknown"
                                           ELSE ret_field.kind),
                                  0, FALSE, FALSE)
             IN  IF ret_field.desc # <<>>
                 THEN write_desc(w, o2, ret_field.desc, None, 1, FALSE)
                 ELSE o2
        ELSE IF ret_field.desc # <<>>
        THEN write_desc(w, o1, ret_field.desc,
                        IF ret_field.kind # ""
                        THEN Some(TextLine(0, "", <<ret_field.kind>>, TRUE, ""))
                        ELSE None,
                        1, FALSE)
        ELSE write_line(w, o1,
                        IF ret_field.kind = "" THEN Blank
                        ELSE Plain(0, ret_field.kind),
                        1, FALSE, FALSE)

\* The handler of element number current (from 0) in the writer of the
\* style: self._current_element = i and the if / elif chain of write().
Section_write_element(w, o, current) ==
    LET element == w.doc.elements[current + 1]
        handler == Dispatch(element)
    IN  IF w.style \in {"rest", "epytext"} THEN write_element(w, o, element)
        ELSE CASE handler = "write_quotes" ->
                    write_quotes(w, o, element[1], element[2])
               [] handler = "write_raw" ->
                    IF w.style = "numpy"
                    THEN Numpy_write_raw(w, o, element[2], current)
                    ELSE write_raw(w, o, element[2])
               [] handler = "write_directive" -> Google_write_directive(w, o, element)
               [] handler = "write_args" -> Google_write_args(w, o)
               [] handler = "write_attributes" -> Google_write_attributes(w, o)
               [] handler = "write_raises" -> Google_write_raises(w, o)
               [] handler = "write_returns" -> Google_write_returns(w, o)
               [] OTHER -> [o EXCEPT !.error = "InvalidDocstringElementError"]

(***************************************************************************)
(* write() of a writer of sections, one element at a step                  *)
(***************************************************************************)
MaxSectionElements == 3
MaxTableFields == 2

\* The elements between the quotes: raw elements of text and of blank
\* lines, a directive, the args section and the return section.
SectionElements ==
    {<<"raw", <<Plain(0, "text")>> >>,
     <<"raw", <<Blank>> >>,
     <<"raw", <<Blank, Plain(0, "text")>> >>,
     <<"note", <<Plain(0, "n")>> >>,
     <<"note", <<Plain(0, "n"), Blank>> >>,
     <<"args">>,
     <<"return">>}

\* The Docstrings of a parser over these elements: each section once.
SectionDocs ==
    {[elements |-> <<<<"start_quote", Quotes>> >> \o els \o <<<<"end_quote", Quotes>> >>,
      arg_fields |-> <<Field(<<"a">>, Some("int"), Some(<<Plain(0, "d")>>), FALSE)>>,
      attribute_fields |-> <<>>,
      raise_fields |-> <<>>,
      return_field |-> Some(Field(<<>>, Some("int"), Some(<<Plain(0, "r")>>), FALSE))] :
        els \in {s \in UNION {[1..n -> SectionElements] : n \in 0..MaxSectionElements} :
                    \A i, j \in 1..Len(s) :
                        (i # j /\ s[i] = s[j]) => s[i][1] \notin {"args", "return"}}}

\* The names of the fields of a table, in the order of the table.
TableNames == <<"a", "b", "c", "d">>

\* The tables of arguments: each field optional or not, with or without a
\* type and a description.
ArgTables ==
    UNION {{[i \in 1..n |-> Field(<<TableNames[i]>>, Some(kinds[i]), Some(descs[i]),
                                  opts[i])] :
               kinds \in [1..n -> {"", "int"}],
               descs \in [1..n -> {<<>>, <<Plain(0, "d")>>}],
               opts \in [1..n -> BOOLEAN]} : n \in 1..MaxTableFields}

TableDocs ==
    {[elements |-> <<<<"start_quote", Quotes>>, <<"raw", <<Plain(0, "Desc.")>> >>,
                     <<"args">>, <<"end_quote", Quotes>> >>,
      arg_fields |-> table,
      attribute_fields |-> <<>>,
      raise_fields |-> <<>>,
      return_field |-> None] : table \in ArgTables}

SectionStyles == {"rest", "epytext", "google", "numpy"}

\* config.output with separate_keywords and use_optional as given.
SectionConfig(realign, separate_keywords, use_optional) ==
    [OutputConfig(realign, Some("false")) EXCEPT
        !.separate_keywords = separate_keywords,
        !.use_optional = use_optional]

\* A writer made for a Docstring; write() has set self.output = [].
InitSections ==
    /\ \E w \in {NewWriter("numpy", d, 0, SectionConfig(realign, FALSE, FALSE)) :
                    d \in SectionDocs, realign \in BOOLEAN}
             \cup {NewWriter(style, d, 0, SectionConfig(realign, sep, opt)) :
                    style \in SectionStyles, d \in TableDocs,
                    realign \in BOOLEAN, sep \in BOOLEAN, opt \in BOOLEAN} :
          pipeline = [writer |-> w,
                      attributes |-> NewOutput(w),
                      current |-> 0,
                      pc |-> "writing"]
    /\ InitOthersOfRender

\* One pass of the loop of write(): self._current_element = i and the
\* handler of the element.
WriteSectionElement ==
    /\ pipeline.pc = "writing"
    /\ pipeline.current < Len(pipeline.writer.doc.elements)
    /\ \E o \in {Section_write_element(pipeline.writer, pipeline.attributes,
                                       pipeline.current)} :
          pipeline' = [pipeline EXCEPT
                          !.attributes = o,
                          !.current = @ + 1,
                          !.pc = IF pipeline.current + 1
                                      = Len(pipeline.writer.doc.elements)
                                 THEN "done" ELSE "writing"]
    /\ UNCHANGED othersOfRender

NextSections == WriteSectionElement

SpecSections == InitSections /\ [][NextSections]_vars

\* The element the next step writes, the output before the step and the
\* output after it.
NextElement == pipeline.writer.doc.elements[pipeline.current + 1]
OutputBefore == pipeline.attributes.output
OutputAfter == pipeline'.attributes.output

HasText(ls) == \E k \in 1..Len(ls) : ~IsBlank(ls[k])

Blanks(ls) == Cardinality({k \in 1..Len(ls) : IsBlank(ls[k])})

\* The tags of the field sections and of the directives.
SectionTags ==
    {"args", "attributes", "raises", "return",
     "example", "note", "seealso", "warning", "reference", "todo"}

\* The nearest element before the next one that is not a raw element of
\* blank lines is a section.
AfterSection ==
    \E j \in 1..pipeline.current :
        /\ pipeline.writer.doc.elements[j][1] \in SectionTags
        /\ \A k \in (j + 1)..pipeline.current :
              /\ pipeline.writer.doc.elements[k][1] = "raw"
              /\ ~HasText(pipeline.writer.doc.elements[k][2])

\* The first line with text among the lines the step has added.
FirstAdded ==
    CHOOSE p \in (Len(OutputBefore) + 1)..Len(OutputAfter) :
        /\ ~IsBlank(OutputAfter[p])
        /\ \A k \in (Len(OutputBefore) + 1)..(p - 1) : IsBlank(OutputAfter[k])

\* C22: when NumpyWriter writes a raw element with text whose nearest
\* element before it, raw elements of blank lines apart, is a section or a
\* directive, exactly two blank lines stand before the text in the output;
\* after any other element the step adds no blank line that the raw
\* element does not hold.
C22_TwoBlankLinesAfterSection ==
    [][(/\ pipeline.pc = "writing"
        /\ pipeline.writer.style = "numpy"
        /\ NextElement[1] = "raw"
        /\ HasText(NextElement[2]))
          => IF AfterSection
             THEN /\ \E p \in (Len(OutputBefore) + 1)..Len(OutputAfter) :
                        ~IsBlank(OutputAfter[p])
                  /\ FirstAdded > 3
                  /\ IsBlank(OutputAfter[FirstAdded - 1])
                  /\ IsBlank(OutputAfter[FirstAdded - 2])
                  /\ ~IsBlank(OutputAfter[FirstAdded - 3])
             ELSE Blanks(OutputAfter) - Blanks(OutputBefore)
                      <= Blanks(NextElement[2])]_vars

\* C22 witness: NumpyWriter has written a directive, a raw element of a
\* blank line and a raw element with text, and two blank lines stand
\* between the directive and the text.
C22_Witness ==
    /\ pipeline.pc = "done"
    /\ pipeline.writer.style = "numpy"
    /\ Len(pipeline.writer.doc.elements) >= 4
    /\ Len(pipeline.attributes.output) >= 7
    /\ SubSeq(pipeline.writer.doc.elements, 2, 4) =
          <<<<"note", <<Plain(0, "n")>> >>, <<"raw", <<Blank>> >>,
            <<"raw", <<Plain(0, "text")>> >> >>
    /\ SubSeq(pipeline.attributes.output, 2, 7) =
          <<Plain(0, "Notes"), Plain(0, "-----"), Plain(0, "n"), Blank, Blank,
            Plain(0, "text")>>

\* The lines the step has added to the output.
Added == SubSeq(OutputAfter, Len(OutputBefore) + 1, Len(OutputAfter))

\* The field a line of the output names, and the group the line puts it
\* in: the field of a param or keyword line, or the name at the place of
\* names under the latest header.
IsVarLine(style, ls, p) ==
    IF style \in {"rest", "epytext"}
    THEN Len(ls[p].words) = 2 /\ ls[p].words[1] \in {"param", "keyword"}
    ELSE /\ ls[p].words # <<>>
         /\ \E i \in 1..Len(TableNames) : ls[p].words[1] = TableNames[i]
         /\ ls[p].indent = IF style = "google" THEN 4 ELSE 0

VarName(style, ls, p) ==
    IF style \in {"rest", "epytext"} THEN ls[p].words[2] ELSE ls[p].words[1]

IsHeader(line) ==
    /\ Len(line.words) = 1
    /\ line.words[1] \in {"Args", "Parameters", "Keyword Args", "Keyword Arguments"}

VarGroup(style, ls, p) ==
    IF style \in {"rest", "epytext"} THEN ls[p].words[1]
    ELSE LET h == CHOOSE q \in 1..p :
                      IsHeader(ls[q]) /\ \A r \in (q + 1)..p : ~IsHeader(ls[r])
         IN  IF ls[h].words[1] \in {"Args", "Parameters"} THEN "param" ELSE "keyword"

\* The fields the lines name, with their groups, in the order of the lines.
RenderedVars(style, ls) ==
    LET at == {p \in 1..Len(ls) : IsVarLine(style, ls, p)}
        Nth(k) == CHOOSE p \in at : Cardinality({q \in at : q < p}) = k - 1
    IN  [k \in 1..Cardinality(at) |->
            <<VarName(style, ls, Nth(k)), VarGroup(style, ls, Nth(k))>>]

\* The fields of a table in the order the spec gives them.
ExpectedVars(table, separate_keywords) ==
    LET Named(fields, group) ==
            [k \in 1..Len(fields) |-> <<Str(fields[k].name), group>>]
    IN  IF separate_keywords
        THEN Named(SelectSeq(table, LAMBDA f : ~f.optional), "param")
                \o Named(SelectSeq(table, LAMBDA f : f.optional), "keyword")
        ELSE Named(table, "param")

\* The line carries the marker of an optional field.
HasOptionalMarker(line) ==
    \/ line.tail \in {"optional", "int, optional"}
    \/ \E k \in 1..Len(line.words) :
          line.words[k] \in {"optional", "optional)", "(optional)", "int, optional"}

\* C27: write_args renders every field of arg_fields exactly once: with
\* separate_keywords the fields that are not optional in the order of the
\* table, as the group of args, and then the optional fields in the order
\* of the table, as the group of keywords, none of which gets the optional
\* marker; without separate_keywords all fields in the order of the table
\* in one group.
C27_ArgsGrouped ==
    [][(pipeline.pc = "writing" /\ NextElement[1] = "args")
          => /\ RenderedVars(pipeline.writer.style, Added)
                   = ExpectedVars(pipeline.writer.doc.arg_fields,
                                  pipeline.writer.config.separate_keywords)
             /\ pipeline.writer.config.separate_keywords
                   => \A p \in 1..Len(Added) : ~HasOptionalMarker(Added[p])]_vars

\* C27 witness: GoogleWriter has written, with separate_keywords and
\* use_optional, a table of an optional field and a field that is not
\* optional: the second field under Args and then the first under Keyword
\* Args.
C27_Witness ==
    /\ pipeline.pc = "done"
    /\ pipeline.writer.style = "google"
    /\ pipeline.writer.config.separate_keywords
    /\ pipeline.writer.config.use_optional
    /\ Len(pipeline.writer.doc.arg_fields) = 2
    /\ pipeline.writer.doc.arg_fields[1].optional
    /\ ~pipeline.writer.doc.arg_fields[2].optional
    /\ RenderedVars("google", pipeline.attributes.output)
          = <<<<"b", "param">>, <<"a", "keyword">> >>
====
